---- MODULE Spec2Model ----
(***************************************************************************)
(* A model of torudo's navigation/synchronisation engine: the todo.txt     *)
(* record parser and the file mutation primitives (src/src/todo.rs), the   *)
(* selection state machine with its preview sub-state                      *)
(* (src/src/app_state.rs) and the debounced file-watch handler             *)
(* (src/src/event_handler.rs).                                             *)
(*                                                                         *)
(* Text is modelled character by character: a string is a sequence of      *)
(* one-character TLA+ strings, "NL" stands for the line feed.  An          *)
(* Option<T> is a sequence of length at most one: << >> is None and        *)
(* <<v>> is Some(v).                                                       *)
(***************************************************************************)
EXTENDS Integers, Sequences, FiniteSets, TLC

(***************************************************************************)
(* Characters and strings                                                  *)
(***************************************************************************)

NL == "NL"

\* The code point of a character (the byte value for ASCII).
Code(c) ==
    CASE c = "NL" -> 10
      [] c = " " -> 32
      [] c = "(" -> 40
      [] c = ")" -> 41
      [] c = "+" -> 43
      [] c = "-" -> 45
      [] c = "0" -> 48
      [] c = "1" -> 49
      [] c = "2" -> 50
      [] c = "3" -> 51
      [] c = "4" -> 52
      [] c = "5" -> 53
      [] c = "6" -> 54
      [] c = "7" -> 55
      [] c = "8" -> 56
      [] c = "9" -> 57
      [] c = ":" -> 58
      [] c = "@" -> 64
      [] c = "A" -> 65
      [] c = "B" -> 66
      [] c = "N" -> 78
      [] c = "P" -> 80
      [] c = "a" -> 97
      [] c = "c" -> 99
      [] c = "d" -> 100
      [] c = "e" -> 101
      [] c = "i" -> 105
      [] c = "j" -> 106
      [] c = "o" -> 111
      [] c = "p" -> 112
      [] c = "q" -> 113
      [] c = "r" -> 114
      [] c = "t" -> 116
      [] c = "u" -> 117
      [] c = "x" -> 120
      [] c = "e'" -> 233
      [] c = "EUR" -> 8364

\* The length of a character's UTF-8 encoding ("e'" is U+00E9, "EUR" is U+20AC).
Utf8Len(c) ==
    IF Code(c) < 128 THEN 1 ELSE IF Code(c) < 2048 THEN 2 ELSE 3

\* str::len: the length in bytes.
RECURSIVE ByteLen(_)
ByteLen(s) ==
    IF s = << >> THEN 0 ELSE Utf8Len(Head(s)) + ByteLen(Tail(s))

\* char::is_whitespace, for the characters of the model.
IsWhitespace(c) ==
    c = " "

\* char::is_ascii_uppercase
is_ascii_uppercase(c) ==
    Code(c) >= 65 /\ Code(c) <= 90

IsDigit(c) ==
    Code(c) >= 48 /\ Code(c) <= 57

DigitVal(c) ==
    Code(c) - 48

\* str::trim().is_empty()
IsBlank(s) ==
    \A i \in 1..Len(s) : IsWhitespace(s[i])

\* str::trim_start
RECURSIVE trim_start(_)
trim_start(s) ==
    IF s # << >> /\ IsWhitespace(Head(s)) THEN trim_start(Tail(s)) ELSE s

\* str::starts_with / str::strip_prefix
starts_with(s, p) ==
    Len(s) >= Len(p) /\ SubSeq(s, 1, Len(p)) = p

strip_prefix(s, p) ==
    IF starts_with(s, p) THEN <<SubSeq(s, Len(p) + 1, Len(s))>> ELSE << >>

ends_with(s, p) ==
    Len(s) >= Len(p) /\ SubSeq(s, Len(s) - Len(p) + 1, Len(s)) = p

\* str::split_whitespace: the maximal runs of non-whitespace characters.
RECURSIVE SplitFrom(_, _, _, _)
SplitFrom(s, i, cur, acc) ==
    IF i > Len(s)
    THEN (IF cur = << >> THEN acc ELSE Append(acc, cur))
    ELSE IF IsWhitespace(s[i])
         THEN SplitFrom(s, i + 1, << >>, IF cur = << >> THEN acc ELSE Append(acc, cur))
         ELSE SplitFrom(s, i + 1, Append(cur, s[i]), acc)

split_whitespace(s) ==
    SplitFrom(s, 1, << >>, << >>)

\* str::lines: split at line feeds; the final line ending is optional, so a
\* string that ends with a line feed yields no empty last line.
RECURSIVE LinesFrom(_, _, _, _)
LinesFrom(s, i, cur, acc) ==
    IF i > Len(s)
    THEN (IF cur = << >> THEN acc ELSE Append(acc, cur))
    ELSE IF s[i] = NL
         THEN LinesFrom(s, i + 1, << >>, Append(acc, cur))
         ELSE LinesFrom(s, i + 1, Append(cur, s[i]), acc)

lines(s) ==
    LinesFrom(s, 1, << >>, << >>)

\* [String]::join(sep)
RECURSIVE join(_, _)
join(ss, sep) ==
    IF ss = << >> THEN << >>
    ELSE IF Len(ss) = 1 THEN ss[1]
    ELSE ss[1] \o sep \o join(Tail(ss), sep)

\* Ord for str: lexicographic by bytes, which for UTF-8 is by code point.
RECURSIVE StrLess(_, _)
StrLess(a, b) ==
    IF b = << >> THEN FALSE
    ELSE IF a = << >> THEN TRUE
    ELSE IF Code(Head(a)) # Code(Head(b)) THEN Code(Head(a)) < Code(Head(b))
    ELSE StrLess(Tail(a), Tail(b))

(***************************************************************************)
(* chrono                                                                  *)
(***************************************************************************)

IsLeapYear(y) ==
    (y % 4 = 0 /\ y % 100 # 0) \/ y % 400 = 0

DaysInMonth(y, m) ==
    IF m = 2 THEN (IF IsLeapYear(y) THEN 29 ELSE 28)
    ELSE IF m \in {4, 6, 9, 11} THEN 30 ELSE 31

\* NaiveDate::parse_from_str(tok, "%Y-%m-%d").is_ok(), for tokens written
\* with four, two and two digits: the digits must name a calendar day.
IsDate(tok) ==
    /\ Len(tok) = 10
    /\ tok[5] = "-" /\ tok[8] = "-"
    /\ \A i \in {1, 2, 3, 4, 6, 7, 9, 10} : IsDigit(tok[i])
    /\ LET y == 1000 * DigitVal(tok[1]) + 100 * DigitVal(tok[2])
                + 10 * DigitVal(tok[3]) + DigitVal(tok[4])
           m == 10 * DigitVal(tok[6]) + DigitVal(tok[7])
           d == 10 * DigitVal(tok[9]) + DigitVal(tok[10])
       IN  m >= 1 /\ m <= 12 /\ d >= 1 /\ d <= DaysInMonth(y, m)

(***************************************************************************)
(* todo.rs: Item::parse                                                    *)
(***************************************************************************)

\* The test of todo.rs:45-47 on the peeked token: three bytes, '(' first,
\* ')' last and an ASCII uppercase letter second.
IsPriorityToken(part) ==
    /\ ByteLen(part) = 3
    /\ starts_with(part, <<"(">>)
    /\ ends_with(part, <<")">>)
    /\ Len(part) >= 2
    /\ is_ascii_uppercase(part[2])

\* The item of todo.rs:21-31, before any token is read.
NewItem(line_number) ==
    [ completed |-> FALSE,
      priority |-> << >>,
      creation_date |-> << >>,
      completion_date |-> << >>,
      description |-> << >>,
      projects |-> << >>,
      contexts |-> << >>,
      id |-> << >>,
      line_number |-> line_number ]

\* The parser's position: the item so far and the tokens not yet consumed
\* (the peekable iterator).
Cursor(item, parts) ==
    [item |-> item, parts |-> parts]

\* todo.rs:36-41: a date after the marker is the completion date.
ParseCompletionDate(c) ==
    IF c.parts # << >> /\ IsDate(Head(c.parts))
    THEN Cursor([c.item EXCEPT !.completion_date = <<Head(c.parts)>>], Tail(c.parts))
    ELSE c

\* todo.rs:33-42: the completion marker
ParseMarker(c) ==
    IF c.parts # << >> /\ Head(c.parts) = <<"x">>
    THEN ParseCompletionDate(Cursor([c.item EXCEPT !.completed = TRUE], Tail(c.parts)))
    ELSE c

\* A parser that looks for the priority only while no marker was consumed.
ParsePriorityOfIncomplete(c) ==
    IF ~c.item.completed /\ c.parts # << >> /\ IsPriorityToken(Head(c.parts))
    THEN Cursor([c.item EXCEPT !.priority = <<Head(c.parts)[2]>>], Tail(c.parts))
    ELSE c

\* todo.rs:44-53: the priority, looked for wherever the cursor stands
ParsePriority(c) ==
    IF c.parts # << >> /\ IsPriorityToken(Head(c.parts))
    THEN Cursor([c.item EXCEPT !.priority = <<Head(c.parts)[2]>>], Tail(c.parts))
    ELSE c

\* todo.rs:54-59: the creation date
ParseCreationDate(c) ==
    IF c.parts # << >> /\ IsDate(Head(c.parts))
    THEN Cursor([c.item EXCEPT !.creation_date = <<Head(c.parts)>>], Tail(c.parts))
    ELSE c

\* todo.rs:60-72: the remaining tokens by prefix, then the description.
RECURSIVE ParseRest(_, _, _)
ParseRest(item, desc_parts, parts) ==
    IF parts = << >> THEN [item EXCEPT !.description = join(desc_parts, <<" ">>)]
    ELSE IF starts_with(Head(parts), <<"+">>)
    THEN ParseRest([item EXCEPT !.projects = Append(@, Tail(Head(parts)))],
                   desc_parts, Tail(parts))
    ELSE IF starts_with(Head(parts), <<"@">>)
    THEN ParseRest([item EXCEPT !.contexts = Append(@, Tail(Head(parts)))],
                   desc_parts, Tail(parts))
    ELSE IF starts_with(Head(parts), <<"i", "d", ":">>)
    THEN ParseRest([item EXCEPT !.id = <<SubSeq(Head(parts), 4, Len(Head(parts)))>>],
                   desc_parts, Tail(parts))
    ELSE ParseRest(item, Append(desc_parts, Head(parts)), Tail(parts))

ParseFields(c) ==
    ParseRest(c.item, << >>, c.parts)

\* Item::parse
parse(line, line_number) ==
    ParseFields(ParseCreationDate(ParsePriority(ParseMarker(
        Cursor(NewItem(line_number), split_whitespace(line))))))


(***************************************************************************)
(* todo.rs: load_todos, add_missing_ids, mark_complete, grouping           *)
(***************************************************************************)

\* A comparator that looks at the line numbers only.
ItemLessByLine(a, b) ==
    a.line_number < b.line_number

\* The comparator of todo.rs:86-95 as "a sorts strictly before b".
ItemLess(a, b) ==
    LET byLine == a.line_number < b.line_number
        sameLine == a.line_number = b.line_number
    IN  IF a.priority # << >> /\ b.priority # << >>
        THEN \/ Code(a.priority[1]) < Code(b.priority[1])
             \/ (Code(a.priority[1]) = Code(b.priority[1]) /\ byLine)
        ELSE IF a.priority # << >> THEN TRUE
        ELSE IF b.priority # << >> THEN FALSE
        ELSE byLine

\* Vec::sort_by: a stable sort (insertion of each element after the elements
\* that do not sort after it).
RECURSIVE InsertItem(_, _)
InsertItem(sorted, x) ==
    IF sorted = << >> THEN <<x>>
    ELSE IF ItemLess(x, Head(sorted)) THEN <<x>> \o sorted
    ELSE <<Head(sorted)>> \o InsertItem(Tail(sorted), x)

RECURSIVE sort_by(_)
sort_by(items) ==
    IF items = << >> THEN << >>
    ELSE InsertItem(sort_by(SubSeq(items, 1, Len(items) - 1)), items[Len(items)])

\* The body of load_todos after the read succeeded.
LoadContent(content) ==
    LET ls == lines(content)
        Keep(i) == ~IsBlank(ls[i])
        RECURSIVE Collect(_)
        Collect(i) ==
            IF i > Len(ls) THEN << >>
            ELSE (IF Keep(i) THEN <<parse(ls[i], i)>> ELSE << >>) \o Collect(i + 1)
    IN  sort_by(Collect(1))

\* load_todos: file is << >> when the read fails, <<content>> otherwise.
\* The result is << >> for Err and <<todos>> for Ok.
load_todos(file) ==
    IF file = << >> THEN << >> ELSE <<LoadContent(file[1])>>

\* Uuid::new_v4().to_string(): the n-th token drawn, distinct for distinct n;
\* like a UUID it holds no whitespace.
Uuid(n) ==
    <<"u">> \o (IF n < 10 THEN << >> ELSE <<"1">>)
            \o <<CHOOSE c \in {"0", "1", "2", "3", "4", "5", "6", "7", "8", "9"} :
                    DigitVal(c) = n % 10>>

\* A variant of the format string that leaves out the separating space.
WithNewIdGlued(line, new_id) ==
    line \o <<"i", "d", ":">> \o new_id

\* format!("{line} id:{new_id}")
WithNewId(line, new_id) ==
    line \o <<" ", "i", "d", ":">> \o new_id

\* A pass that gives every non-blank line a new identifier, whether it
\* carries one or not.
RECURSIVE AddIdsToAll(_, _, _)
AddIdsToAll(ls, i, drawn) ==
    IF i > Len(ls) THEN [new_lines |-> << >>, modified |-> FALSE, drawn |-> drawn]
    ELSE IF IsBlank(ls[i])
         THEN LET r == AddIdsToAll(ls, i + 1, drawn)
              IN  [r EXCEPT !.new_lines = <<ls[i]>> \o @]
         ELSE LET r == AddIdsToAll(ls, i + 1, drawn + 1)
              IN  [r EXCEPT !.new_lines = <<WithNewId(ls[i], Uuid(drawn + 1))>> \o @,
                            !.modified = TRUE]

\* add_missing_ids on the content read: uuid0 tokens were drawn before.
\* Yields the lines as rewritten, whether any changed and the tokens drawn.
RECURSIVE AddIdsFrom(_, _, _)
AddIdsFrom(ls, i, drawn) ==
    IF i > Len(ls) THEN [new_lines |-> << >>, modified |-> FALSE, drawn |-> drawn]
    ELSE IF IsBlank(ls[i])
         THEN LET r == AddIdsFrom(ls, i + 1, drawn)
              IN  [r EXCEPT !.new_lines = <<ls[i]>> \o @]
         ELSE IF parse(ls[i], i).id = << >>
              THEN LET r == AddIdsFrom(ls, i + 1, drawn + 1)
                   IN  [r EXCEPT !.new_lines = <<WithNewId(ls[i], Uuid(drawn + 1))>> \o @,
                                 !.modified = TRUE]
              ELSE LET r == AddIdsFrom(ls, i + 1, drawn)
                   IN  [r EXCEPT !.new_lines = <<ls[i]>> \o @]

\* todo.rs:123-130: the write, made only when some line was given an
\* identifier.  r is what the loop yields.
\* A pass that rewrites the file whether or not a line lacked an identifier.
WriteIdsAlways(file, r, write_ok) ==
    IF write_ok
    THEN [result |-> "Ok", file |-> <<join(r.new_lines, <<NL>>)>>,
          wrote |-> TRUE, drawn |-> r.drawn]
    ELSE [result |-> "Err", file |-> file, wrote |-> TRUE, drawn |-> r.drawn]

WriteIds(file, r, write_ok) ==
    IF ~r.modified
    THEN [result |-> "Ok", file |-> file, wrote |-> FALSE, drawn |-> r.drawn]
    ELSE IF write_ok
    THEN [result |-> "Ok", file |-> <<join(r.new_lines, <<NL>>)>>,
          wrote |-> TRUE, drawn |-> r.drawn]
    ELSE [result |-> "Err", file |-> file, wrote |-> TRUE, drawn |-> r.drawn]

\* add_missing_ids(file_path).  file: << >> when the read fails; write_ok:
\* whether fs::write succeeds.  Yields the result, the file afterwards,
\* whether fs::write was called and the number of tokens drawn so far.
add_missing_ids(file, uuid0, write_ok) ==
    IF file = << >>
    THEN [result |-> "Err", file |-> file, wrote |-> FALSE, drawn |-> uuid0]
    ELSE WriteIds(file, AddIdsFrom(lines(file[1]), 1, uuid0), write_ok)

\* The number of characters of s that make up its first n bytes, or -1 when
\* byte n is not a character boundary (slicing there panics).
RECURSIVE CharsInBytes(_, _)
CharsInBytes(s, n) ==
    IF n = 0 THEN 0
    ELSE IF s = << >> \/ Utf8Len(Head(s)) > n THEN -1
    ELSE LET k == CharsInBytes(Tail(s), n - Utf8Len(Head(s)))
         IN  IF k < 0 THEN -1 ELSE k + 1

\* The test of todo.rs:155-157 for a leading priority.
HasLeadingPriority(line) ==
    /\ starts_with(line, <<"(">>)
    /\ ByteLen(line) >= 4
    /\ Len(line) >= 3 /\ line[3] = ")"

\* format!("x {pri} {today} {rest}") with pri = &line[..3] and
\* rest = line[3..].trim_start(); k is the number of characters in the first
\* three bytes, negative when byte 3 is no character boundary: << >> stands
\* for the panic of the slice.
WithPriorityMoved(line, k, today) ==
    IF k < 0 THEN << >>
    ELSE <<(<<"x", " ">> \o SubSeq(line, 1, k) \o <<" ">> \o today \o <<" ">>
            \o trim_start(SubSeq(line, k + 1, Len(line))))>>

\* The line mark_complete writes to done.txt for a matched line
\* (todo.rs:150-169); << >> when the slice at byte 3 panics.
CompletedLine(line, todo, today) ==
    IF todo.completed THEN <<line>>
    ELSE IF HasLeadingPriority(line)
    THEN WithPriorityMoved(line, CharsInBytes(line, 3), today)
    ELSE <<(<<"x", " ">> \o today \o <<" ">> \o line)>>

\* The loop state of mark_complete: the lines kept, the completed line of
\* the last match (an Option) and whether a slice panicked.
SetCompleted(acc, c) ==
    IF c = << >> THEN [acc EXCEPT !.panic = TRUE]
    ELSE [acc EXCEPT !.completed_line = c]

\* One iteration of the loop (todo.rs:141-175)
MarkLine(acc, line, todo, todo_id, today) ==
    IF IsBlank(line) THEN [acc EXCEPT !.new_lines = Append(@, line)]
    ELSE IF todo.id = <<todo_id>> THEN SetCompleted(acc, CompletedLine(line, todo, today))
    ELSE [acc EXCEPT !.new_lines = Append(@, line)]

RECURSIVE MarkFrom(_, _, _, _, _)
MarkFrom(ls, i, acc, todo_id, today) ==
    IF i > Len(ls) \/ acc.panic THEN acc
    ELSE MarkFrom(ls, i + 1, MarkLine(acc, ls[i], parse(ls[i], i), todo_id, today),
                  todo_id, today)

\* The content written to done.txt (todo.rs:183-193); done is << >> when the
\* file does not exist.
DoneContent(done) ==
    IF done = << >> THEN << >> ELSE done[1]

AppendDone(done_content, completed_todo) ==
    done_content
    \o (IF done_content # << >> /\ ~ends_with(done_content, <<NL>>) THEN <<NL>> ELSE << >>)
    \o completed_todo \o <<NL>>

\* The two writes in the other order: todo.txt first, done.txt second.
WriteBothTodoFirst(file, done, r, d, io) ==
    IF io = "write_todo" THEN [result |-> "Err", file |-> file, done |-> done]
    ELSE IF io = "write_done"
    THEN [result |-> "Err", file |-> <<join(r.new_lines, <<NL>>)>>, done |-> done]
    ELSE [result |-> "Ok", file |-> <<join(r.new_lines, <<NL>>)>>, done |-> <<d>>]

\* todo.rs:195-198: done.txt is written first, todo.txt second.
WriteBoth(file, done, r, d, io) ==
    IF io = "write_done" THEN [result |-> "Err", file |-> file, done |-> done]
    ELSE IF io = "write_todo" THEN [result |-> "Err", file |-> file, done |-> <<d>>]
    ELSE [result |-> "Ok", file |-> <<join(r.new_lines, <<NL>>)>>, done |-> <<d>>]

\* A completion that creates done.txt whether or not a line matched.
MoveCompletedCreatingDone(file, done, r, io) ==
    [result |-> IF r.panic THEN "Panic" ELSE "Ok", file |-> file,
     done |-> <<DoneContent(done)>>]

\* todo.rs:177-203: what follows the loop, r being the loop's state.
MoveCompleted(file, done, r, io) ==
    IF r.panic THEN [result |-> "Panic", file |-> file, done |-> done]
    ELSE IF r.completed_line = << >> THEN [result |-> "Ok", file |-> file, done |-> done]
    ELSE IF done # << >> /\ io = "read_done"
    THEN [result |-> "Err", file |-> file, done |-> done]
    ELSE WriteBoth(file, done, r,
                   AppendDone(DoneContent(done), r.completed_line[1]), io)

\* mark_complete(todo_file, todo_id).  io names the first file operation that
\* fails, "none" when all succeed.  Yields the result and the two files.
mark_complete(file, done, todo_id, today, io) ==
    IF file = << >> \/ io = "read_todo"
    THEN [result |-> "Err", file |-> file, done |-> done]
    ELSE MoveCompleted(file, done,
             MarkFrom(lines(file[1]), 1,
                      [new_lines |-> << >>, completed_line |-> << >>, panic |-> FALSE],
                      todo_id, today),
             io)

\* The (group name, record) pairs in the order group_todos_by_project_owned
\* pushes them.
NoProject ==
    <<"N", "o", " ", "P", "r", "o", "j", "e", "c", "t">>

RECURSIVE GroupEntries(_)
GroupEntries(todos) ==
    IF todos = << >> THEN << >>
    ELSE LET t == Head(todos)
             own == IF t.projects = << >> THEN <<[name |-> NoProject, item |-> t]>>
                    ELSE [i \in 1..Len(t.projects) |-> [name |-> t.projects[i], item |-> t]]
         IN  own \o GroupEntries(Tail(todos))

\* group_todos_by_project_owned: the HashMap as a function on its keys.
group_todos_by_project_owned(todos) ==
    LET es == GroupEntries(todos)
        keys == {es[i].name : i \in 1..Len(es)}
    IN  [k \in keys |->
            LET Mine(e) == e.name = k
                mine == SelectSeq(es, Mine)
            IN  [i \in 1..Len(mine) |-> mine[i].item]]

\* The keys in decreasing order.
RECURSIVE SortedNamesDescending(_)
SortedNamesDescending(keys) ==
    IF keys = {} THEN << >>
    ELSE LET m == CHOOSE k \in keys : \A o \in keys : o = k \/ StrLess(o, k)
         IN  <<m>> \o SortedNamesDescending(keys \ {m})

\* keys().cloned().collect() followed by sort(): the keys in increasing order.
RECURSIVE SortedNames(_)
SortedNames(keys) ==
    IF keys = {} THEN << >>
    ELSE LET m == CHOOSE k \in keys : \A o \in keys : o = k \/ StrLess(k, o)
         IN  <<m>> \o SortedNames(keys \ {m})

(***************************************************************************)
(* app_state.rs: AppState                                                  *)
(*                                                                         *)
(* The operations are functions of the AppState record and of what the     *)
(* environment answers (file contents, the session list, the outcome of    *)
(* each RPC call); each yields the new record and the RPC calls it sent.   *)
(* Columns and rows are 0-based as in the code; sequences are 1-based.     *)
(***************************************************************************)

\* usize::saturating_sub
saturating_sub(a, b) ==
    IF a >= b THEN a - b ELSE 0

\* send_vim_command: the "e <dir>/todos/<id>.md" command; its outcome is only
\* logged.
Focus(todo_id) ==
    [call |-> "focus", arg |-> todo_id]

RpcCall(name) ==
    [call |-> name, arg |-> << >>]

\* The two derived fields: grouped_todos and the sorted project_names.
WithGroups(s, g) ==
    [s EXCEPT !.grouped_todos = g, !.project_names = SortedNames(DOMAIN g)]

\* AppState::new
new(todos, monitor_enabled) ==
    WithGroups([ todos |-> todos,
                 grouped_todos |-> << >>,
                 project_names |-> << >>,
                 current_column |-> 0,
                 selected_in_column |-> 0,
                 claude_sessions_enabled |-> monitor_enabled,
                 claude_selected_index |-> 0,
                 preview_active |-> FALSE,
                 last_preview_update |-> << >>,
                 terminal_channel |-> << >> ],
               group_todos_by_project_owned(todos))

is_on_claude_column(s) ==
    s.claude_sessions_enabled /\ s.current_column = Len(s.project_names)

total_columns(s) ==
    Len(s.project_names) + (IF s.claude_sessions_enabled THEN 1 ELSE 0)

\* The record list of the current column: project_names.get(current_column)
\* and grouped_todos.get(name), << >> when either is None.
CurrentTodos(s) ==
    IF s.current_column < Len(s.project_names)
       /\ s.project_names[s.current_column + 1] \in DOMAIN s.grouped_todos
    THEN <<s.grouped_todos[s.project_names[s.current_column + 1]]>>
    ELSE << >>

\* The record under the selection, as current_todos.get(selected_in_column)
SelectedIn(s, cur) ==
    IF cur # << >> /\ s.selected_in_column < Len(cur[1])
    THEN <<cur[1][s.selected_in_column + 1]>>
    ELSE << >>

\* selected_todo.id.as_deref() on an Option<&Item>
IdOf(selected) ==
    IF selected = << >> THEN << >> ELSE selected[1].id

get_current_todo_id(s) ==
    IdOf(SelectedIn(s, CurrentTodos(s)))

\* What an operation yields: the new AppState and the RPC calls it sent.
Sent(s, calls) ==
    [st |-> s, rpc |-> calls]

Silent(s) ==
    Sent(s, << >>)

\* A handler that never sends the focus command.
FocusIdNever(id) ==
    << >>

\* "if let Some(todo_id) = self.get_current_todo_id() { send_vim_command }"
FocusId(id) ==
    IF id = << >> THEN << >> ELSE <<Focus(id[1])>>

FocusCurrent(s) ==
    FocusId(get_current_todo_id(s))

\* A reconciliation that sends the focus command twice.
FocusSelectedTwice(s) ==
    Sent(s, FocusCurrent(s) \o FocusCurrent(s))

FocusSelected(s) ==
    Sent(s, FocusCurrent(s))

\* A reconciliation that leaves current_column as it finds it.
ClampColumnNever(s) ==
    s

\* app_state.rs:135-137
ClampColumn(s) ==
    IF s.current_column >= total_columns(s)
    THEN [s EXCEPT !.current_column = saturating_sub(total_columns(s), 1)]
    ELSE s

\* app_state.rs:138-142, cur being the record list of the current column
ClampRowIn(s, cur) ==
    IF cur # << >> /\ s.selected_in_column >= Len(cur[1])
    THEN [s EXCEPT !.selected_in_column = saturating_sub(Len(cur[1]), 1)]
    ELSE s

ClampRow(s) ==
    ClampRowIn(s, CurrentTodos(s))

update_derived_state(s) ==
    FocusSelected(ClampRow(ClampColumn(
        WithGroups(s, group_todos_by_project_owned(s.todos)))))

\* A reload that reconciles the old records when the load fails.
AfterLoadReconciling(s, loaded) ==
    IF loaded = << >> THEN update_derived_state(s)
    ELSE update_derived_state([s EXCEPT !.todos = loaded[1]])

\* The match of reload_todos on what load_todos returned.
AfterLoad(s, loaded) ==
    IF loaded = << >> THEN Silent(s)
    ELSE update_derived_state([s EXCEPT !.todos = loaded[1]])

\* reload_todos: file is << >> when the read fails.
reload_todos(s, file) ==
    AfterLoad(s, load_todos(file))

\* claude_session_count, with monitor_state present exactly when the column
\* is enabled
claude_session_count(s, sessions) ==
    IF s.claude_sessions_enabled THEN Len(sessions) ELSE 0

\* A push that records its time whether or not the call was sent.
UpdatePreviewContentAlwaysTimed(s, sessions, now, net) ==
    IF ~s.claude_sessions_enabled \/ s.claude_selected_index >= Len(sessions)
    THEN Silent(s)
    ELSE IF s.terminal_channel = << >>
    THEN Silent(s)
    ELSE Sent([s EXCEPT !.last_preview_update = <<now>>],
              <<[call |-> "nvim_chan_send",
                 arg |-> <<s.terminal_channel[1], s.claude_selected_index>>]>>)

\* update_preview_content.  net.send: whether send_nvim_rpc_raw succeeds.
update_preview_content(s, sessions, now, net) ==
    IF ~s.claude_sessions_enabled \/ s.claude_selected_index >= Len(sessions)
    THEN Silent(s)
    ELSE IF s.terminal_channel = << >>
    THEN Silent(s)
    ELSE Sent(IF net.send THEN [s EXCEPT !.last_preview_update = <<now>>] ELSE s,
              <<[call |-> "nvim_chan_send",
                 arg |-> <<s.terminal_channel[1], s.claude_selected_index>>]>>)

\* An enter that marks the preview active without storing the channel.
EnterPreviewWithoutChannel(s, net) ==
    IF ~net.enew THEN Sent(s, <<RpcCall("enew")>>)
    ELSE IF net.open_term[1] # "chan"
    THEN Sent(s, <<RpcCall("enew"), RpcCall("nvim_open_term")>>)
    ELSE Sent([s EXCEPT !.preview_active = TRUE],
              <<RpcCall("enew"), RpcCall("nvim_open_term"), RpcCall("setlocal")>>)

\* enter_preview_mode.  net.enew: whether the "enew" command is sent;
\* net.open_term: what nvim_open_term answers, <<"err">>, <<"other">> (a
\* result that is no integer) or <<"chan", id>>.
enter_preview_mode(s, net) ==
    IF ~net.enew THEN Sent(s, <<RpcCall("enew")>>)
    ELSE IF net.open_term[1] # "chan"
    THEN Sent(s, <<RpcCall("enew"), RpcCall("nvim_open_term")>>)
    ELSE Sent([s EXCEPT !.terminal_channel = <<net.open_term[2]>>,
                        !.preview_active = TRUE],
              <<RpcCall("enew"), RpcCall("nvim_open_term"), RpcCall("setlocal")>>)

\* A teardown that keeps the channel handle.
LeavePreviewKeepingChannel(s) ==
    FocusSelected([s EXCEPT !.preview_active = FALSE,
                            !.last_preview_update = << >>])

leave_preview_mode(s) ==
    FocusSelected([s EXCEPT !.preview_active = FALSE,
                            !.last_preview_update = << >>,
                            !.terminal_channel = << >>])

\* "self.selected_in_column = 0" followed by the focus of the selection
ResetRowAndFocus(s) ==
    FocusSelected([s EXCEPT !.selected_in_column = 0])

\* r after the calls already sent
AfterCalls(calls, r) ==
    [r EXCEPT !.rpc = calls \o @]

\* app_state.rs:210-212: enter_preview_mode, then update_preview_content on
\* what it left
EnterAndUpdate(e, sessions, now, net) ==
    AfterCalls(e.rpc, update_preview_content(e.st, sessions, now, net))

\* 'k' (app_state.rs:159-172)
KeyUp(s, sessions, now, net) ==
    IF is_on_claude_column(s)
    THEN IF s.claude_selected_index > 0
         THEN update_preview_content([s EXCEPT !.claude_selected_index = @ - 1],
                                     sessions, now, net)
         ELSE Silent(s)
    ELSE IF s.selected_in_column > 0
         THEN FocusSelected([s EXCEPT !.selected_in_column = @ - 1])
         ELSE Silent(s)

\* A test that lets the row move down whenever the column has records.
CanMoveDownUnchecked(s, cur) ==
    cur # << >>

\* The test of app_state.rs:180-182, cur being the record list of the column
CanMoveDown(s, cur) ==
    cur # << >> /\ s.selected_in_column < saturating_sub(Len(cur[1]), 1)

\* 'j' (app_state.rs:173-187)
KeyDown(s, sessions, now, net) ==
    IF is_on_claude_column(s)
    THEN IF s.claude_selected_index < saturating_sub(claude_session_count(s, sessions), 1)
         THEN update_preview_content([s EXCEPT !.claude_selected_index = @ + 1],
                                     sessions, now, net)
         ELSE Silent(s)
    ELSE IF CanMoveDown(s, CurrentTodos(s))
         THEN FocusSelected([s EXCEPT !.selected_in_column = @ + 1])
         ELSE Silent(s)

\* 'h' after the column moved (app_state.rs:192-202)
AfterLeft(s, was_on_claude) ==
    IF is_on_claude_column(s) THEN Silent([s EXCEPT !.claude_selected_index = 0])
    ELSE IF was_on_claude /\ s.preview_active THEN leave_preview_mode(s)
    ELSE ResetRowAndFocus(s)

\* 'h' (app_state.rs:188-204)
KeyLeft(s) ==
    IF s.current_column > 0
    THEN AfterLeft([s EXCEPT !.current_column = @ - 1], is_on_claude_column(s))
    ELSE Silent(s)

\* 'l' after the column moved (app_state.rs:208-216)
AfterRight(s, sessions, now, net) ==
    IF is_on_claude_column(s)
    THEN EnterAndUpdate(enter_preview_mode([s EXCEPT !.claude_selected_index = 0], net),
                        sessions, now, net)
    ELSE ResetRowAndFocus(s)

\* 'l' (app_state.rs:205-218)
KeyRight(s, sessions, now, net) ==
    IF s.current_column < saturating_sub(total_columns(s), 1)
    THEN AfterRight([s EXCEPT !.current_column = @ + 1], sessions, now, net)
    ELSE Silent(s)

handle_navigation_key(s, key_char, sessions, now, net) ==
    CASE key_char = "k" -> KeyUp(s, sessions, now, net)
      [] key_char = "j" -> KeyDown(s, sessions, now, net)
      [] key_char = "h" -> KeyLeft(s)
      [] key_char = "l" -> KeyRight(s, sessions, now, net)
      [] OTHER -> Silent(s)

\* What handle_complete_todo yields: the record, the two files, the RPC
\* calls, whether the process panicked and what mark_complete returned
\* ("None" if it was not called).
Completed(r, m) ==
    [st |-> r.st, file |-> m.file, done |-> m.done, rpc |-> r.rpc,
     panic |-> m.result = "Panic", result |-> m.result]

\* A handler that never reloads after mark_complete.
AfterMarkCompleteNoReload(s, m, io) ==
    Completed(Silent(s), m)

\* The match of handle_complete_todo on what mark_complete returned; the
\* read of reload_todos fails when io is "read_reload".
AfterMarkComplete(s, m, io) ==
    IF m.result = "Ok"
    THEN Completed(reload_todos(s, IF io = "read_reload" THEN << >> ELSE m.file), m)
    ELSE Completed(Silent(s), m)

\* A handler that completes the line of todo.txt found at the selected
\* record's line number, whatever identifier that line carries now.
CompleteLineNumber(s, id, file, done, today, io) ==
    LET sel == SelectedIn(s, CurrentTodos(s))
        ls == IF file = << >> THEN << >> ELSE lines(file[1])
        at == IF sel # << >> /\ sel[1].line_number <= Len(ls)
              THEN parse(ls[sel[1].line_number], sel[1].line_number).id
              ELSE << >>
    IN  IF id = << >> \/ at = << >>
        THEN [st |-> s, file |-> file, done |-> done, rpc |-> << >>,
              panic |-> FALSE, result |-> "None"]
        ELSE AfterMarkComplete(s, mark_complete(file, done, at[1], today, io), io)

CompleteId(s, id, file, done, today, io) ==
    IF id = << >>
    THEN [st |-> s, file |-> file, done |-> done, rpc |-> << >>,
          panic |-> FALSE, result |-> "None"]
    ELSE AfterMarkComplete(s, mark_complete(file, done, id[1], today, io), io)

\* handle_complete_todo.  io names the file operation that fails ("none":
\* all succeed).
handle_complete_todo(s, file, done, today, io) ==
    CompleteId(s, get_current_todo_id(s), file, done, today, io)

\* What handle_reload yields: the record, the file, the RPC calls, the UUIDs
\* drawn so far, whether add_missing_ids wrote the file and what it returned.
Reloaded(r, a) ==
    [st |-> r.st, file |-> a.file, rpc |-> r.rpc, drawn |-> a.drawn,
     wrote |-> a.wrote /\ a.result = "Ok", ids |-> a.result]

\* reload_todos after add_missing_ids returned a, whatever a is
ReloadAfterIds(s, a, io) ==
    Reloaded(reload_todos(s, IF io = "read_reload" THEN << >> ELSE a.file), a)

\* A reload that loads the file without running add_missing_ids.
HandleReloadWithoutIds(s, file, uuid0, io) ==
    ReloadAfterIds(s, [result |-> "Ok", file |-> file, wrote |-> FALSE, drawn |-> uuid0],
                   io)

\* handle_reload: add_missing_ids, its error only logged, then reload_todos.
\* io names the file operation that fails: "read_ids", "write_ids",
\* "read_reload" or "none".
handle_reload(s, file, uuid0, io) ==
    ReloadAfterIds(s,
                   IF io = "read_ids"
                   THEN [add_missing_ids(<< >>, uuid0, TRUE) EXCEPT !.file = file]
                   ELSE add_missing_ids(file, uuid0, io # "write_ids"),
                   io)

\* maybe_update_preview, with ClaudeState::Working as "Working" and the
\* throttle of two seconds (app_state.rs:361).
PreviewThrottleMs ==
    2000

\* An auto-push without the throttle.
MaybeUpdatePreviewUnthrottled(s, sessions, now, net) ==
    IF ~s.preview_active THEN Silent(s)
    ELSE IF ~(/\ s.claude_sessions_enabled
              /\ s.claude_selected_index < Len(sessions)
              /\ sessions[s.claude_selected_index + 1] = "Working")
    THEN Silent(s)
    ELSE update_preview_content(s, sessions, now, net)

maybe_update_preview(s, sessions, now, net) ==
    IF ~s.preview_active THEN Silent(s)
    ELSE IF ~(/\ s.claude_sessions_enabled
              /\ s.claude_selected_index < Len(sessions)
              /\ sessions[s.claude_selected_index + 1] = "Working")
    THEN Silent(s)
    ELSE IF s.last_preview_update # << >>
            /\ now - s.last_preview_update[1] < PreviewThrottleMs
    THEN Silent(s)
    ELSE update_preview_content(s, sessions, now, net)

(***************************************************************************)
(* event_handler.rs: EventHandler                                          *)
(***************************************************************************)

\* EventHandler::new: debounce_duration, in milliseconds
DebounceMs ==
    200

TodoName ==
    "todo.txt"

\* A drain loop that flags a reload for every event naming the tracked file.
ShouldReloadOnAnyKind(events) ==
    \E i \in 1..Len(events) : events[i].name = TodoName

\* The drain loop of handle_file_watcher_events: whether some drained event
\* names the tracked file and is of kind Modify.
ShouldReload(events) ==
    \E i \in 1..Len(events) : events[i].name = TodoName /\ events[i].kind = "Modify"

\* A handler without the debounce test.
ShouldPerformReloadAtOnce(last, t) ==
    TRUE

\* The debounce test (event_handler.rs:59-62)
ShouldPerformReload(last, t) ==
    last = << >> \/ t - last[1] >= DebounceMs

\* What a tick yields when it reloads at time t, r being handle_reload's result
Ticked(r, t) ==
    [st |-> r.st, file |-> r.file, rpc |-> r.rpc, drawn |-> r.drawn,
     wrote |-> r.wrote, reloaded |-> TRUE, ids |-> r.ids,
     last_reload_time |-> <<t>>]

\* handle_file_watcher_events: drains every event; yields handle_reload's
\* result, whether it ran, what its add_missing_ids returned ("None" if it
\* did not run) and the new last_reload_time.
handle_file_watcher_events(last, events, s, file, t, uuid0, io) ==
    IF ShouldReload(events) /\ ShouldPerformReload(last, t)
    THEN Ticked(handle_reload(s, file, uuid0, io), t)
    ELSE [st |-> s, file |-> file, rpc |-> << >>, drawn |-> uuid0,
          wrote |-> FALSE, reloaded |-> FALSE, ids |-> "None",
          last_reload_time |-> last]

(***************************************************************************)
(* The state                                                               *)
(***************************************************************************)

VARIABLES
    state,            \* the AppState
    todo_file,        \* todo.txt: <<content>>
    done_file,        \* done.txt: << >> while it does not exist, else <<content>>
    sessions,         \* MonitorState.sessions: the ClaudeState of each session
    last_reload_time, \* EventHandler.last_reload_time
    file_watcher_rx,  \* the events sent by the watcher and not yet drained
    now,              \* Instant::now(), in milliseconds
    today,            \* chrono::Local::now() as "%Y-%m-%d"
    next_uuid,        \* the number of UUIDs drawn so far
    crashed,          \* the process panicked
    rpc,              \* the RPC calls sent by the last operation
    last_op,          \* the last operation, its input and its result
    watch,            \* history of the watcher ticks
    twin,             \* a second run fed the same inputs
    monitor_lock,     \* the Mutex of MonitorState: who holds it
    pc                \* where the main loop is within an operation that locks

vars ==
    <<state, todo_file, done_file, sessions, last_reload_time, file_watcher_rx,
      now, today, next_uuid, crashed, rpc, last_op, watch, twin, monitor_lock, pc>>

(***************************************************************************)
(* Inputs                                                                  *)
(***************************************************************************)

Day1 ==
    <<"2", "0", "2", "4", "-", "0", "2", "-", "0", "1">>

Day2 ==
    <<"2", "0", "2", "4", "-", "1", "1", "-", "3", "0">>

\* Tokens and lines are written token by token.
Words(tokens) ==
    join(tokens, <<" ">>)

Id(c) ==
    <<"i", "d", ":", c>>

\* Every sequence over pool of length at most n.
RECURSIVE SeqsUpTo(_, _)
SeqsUpTo(pool, n) ==
    IF n = 0 THEN {<< >>}
    ELSE LET shorter == SeqsUpTo(pool, n - 1)
         IN  shorter \cup {Append(q, x) : q \in {r \in shorter : Len(r) = n - 1}, x \in pool}

\* The lines of the single-line files: an optional leading blank, then
\* optionally the marker, a date, something in parentheses and a date, then
\* a word and an identifier.
LineShapes ==
    { lead \o Words(marker \o date1 \o paren \o date2 \o <<<<"t">>, Id("1")>>) :
        lead \in {<< >>, <<" ">>},
        marker \in {<< >>, <<<<"x">>>>},
        date1 \in {<< >>, <<Day1>>},
        paren \in {<< >>, <<<<"(", "A", ")">>>>, <<<<"(", "B", ")">>>>,
                   <<<<"(", "a", ")">>>>, <<<<"(", "A", ")", "t">>>>,
                   <<<<"(", "e'", ")">>>>, <<<<"(", "EUR", ")">>>>},
        date2 \in {<< >>, <<Day2>>} }

\* The lines of the files of several lines: empty, blank, without and with
\* identifier (one identifier twice), with priority, completed.
FileLines ==
    { << >>,
      <<" ">>,
      Words(<<<<"t">>>>),
      Words(<<<<"t">>, Id("1")>>),
      Words(<<<<"(", "A", ")">>, <<"t">>, <<"+", "p">>, Id("1")>>),
      Words(<<<<"(", "B", ")">>, <<"t">>, <<"+", "q">>, Id("2")>>),
      Words(<<<<"x">>, Day1, <<"t">>, Id("2")>>) }

MaxFileLines ==
    2

\* A file's content: its lines joined by line feeds, with or without a final
\* line feed.
Contents(lineSeqs) ==
    { join(ls, <<NL>>) \o tl : ls \in lineSeqs, tl \in {<< >>, <<NL>>} }

FileContents ==
    Contents(SeqsUpTo(FileLines, MaxFileLines))

\* done.txt before the run: absent, empty, one record with and without its
\* line feed.
DoneFiles ==
    { << >>, << << >> >>, <<Words(<<<<"x">>, <<"t">>>>)>>,
      <<Words(<<<<"x">>, <<"t">>>>) \o <<NL>>>> }

TargetIds ==
    {<<"1">>, <<"2">>}

MarkIOs ==
    {"none", "read_todo", "read_done", "write_done", "write_todo"}

\* The UUIDs are drawn from a counter; an operation that would draw more than
\* MaxUuid tokens in all does not start.
MaxUuid ==
    3

\* done.txt only grows; a completion does not start once it holds MaxDoneLines
\* lines.
MaxDoneLines ==
    3

(***************************************************************************)
(* The file operations on their own                                        *)
(***************************************************************************)

\* What the last operation of the program was: its name, its argument, what it returned,
\* whether it wrote todo.txt and whether it repeats an add_missing_ids that
\* returned Ok just before it.
Op(op, arg, result, wrote, repeat) ==
    [op |-> op, arg |-> arg, result |-> result, wrote |-> wrote, repeat |-> repeat]

NoOp ==
    Op("init", << >>, "None", FALSE, FALSE)

\* What is remembered of the watcher ticks: the times of the reloads they
\* performed, whether a reload was skipped by the debounce and not performed
\* since, and for the last tick its time, the events it drained, whether it
\* drained a Modify event
\* of todo.txt, the number of reloads it performed and the time of the
\* reload before it.
NoWatch ==
    [reload_times |-> << >>, deferred |-> FALSE, tick |-> << >>]

\* The main loop is between two operations.  Within an operation that locks
\* MonitorState, at names the statement it is about to run and seen is what
\* it copied out of the session list.
Idle ==
    [at |-> "idle", seen |-> << >>]

InitFile ==
    /\ \/ todo_file \in {<<c>> : c \in FileContents} /\ done_file \in DoneFiles
       \/ todo_file \in {<<l>> : l \in LineShapes} /\ done_file = << >>
    /\ today = Day2
    /\ state = new(<< >>, FALSE)
    /\ sessions = << >>
    /\ last_reload_time = << >>
    /\ file_watcher_rx = << >>
    /\ now = 0
    /\ next_uuid = 0
    /\ crashed = FALSE
    /\ rpc = << >>
    /\ last_op = NoOp
    /\ watch = NoWatch
    /\ monitor_lock = "free"
    /\ pc = Idle
    /\ twin = << >>

\* add_missing_ids(todo_file)
FileAddMissingIds ==
    /\ ~crashed
    /\ \E write_ok \in BOOLEAN :
       \E r \in {add_missing_ids(todo_file, next_uuid, write_ok)} :
          /\ r.drawn <= MaxUuid
          /\ todo_file' = r.file
          /\ next_uuid' = r.drawn
          /\ last_op' = Op("add_missing_ids", << >>, r.result, r.wrote,
                          last_op.op = "add_missing_ids" /\ last_op.result = "Ok")
    /\ UNCHANGED <<state, done_file, sessions, last_reload_time, file_watcher_rx,
                   now, today, crashed, rpc, watch, twin, monitor_lock, pc>>

\* mark_complete(todo_file, todo_id), ios being the file operations that may
\* fail
MarkComplete(ios) ==
    /\ ~crashed
    /\ IF done_file = << >> THEN TRUE ELSE Len(lines(done_file[1])) < MaxDoneLines
    /\ \E todo_id \in TargetIds, io \in ios :
       \E r \in {mark_complete(todo_file, done_file, todo_id, today, io)} :
          /\ todo_file' = r.file
          /\ done_file' = r.done
          /\ crashed' = (r.result = "Panic")
          /\ last_op' = Op("mark_complete", todo_id, r.result, r.file # todo_file, FALSE)
    /\ UNCHANGED <<state, sessions, last_reload_time, file_watcher_rx, now, today,
                   next_uuid, rpc, watch, twin, monitor_lock, pc>>

FileMarkComplete ==
    MarkComplete(MarkIOs)

\* load_todos(todo_file) followed by AppState::new, as at start-up
FileLoad ==
    /\ ~crashed
    /\ \E read_ok \in BOOLEAN :
       \E loaded \in {load_todos(IF read_ok THEN todo_file ELSE << >>)} :
          /\ state' = IF loaded = << >> THEN state ELSE new(loaded[1], FALSE)
          /\ last_op' = Op("load_todos", << >>,
                           IF loaded = << >> THEN "Err" ELSE "Ok", FALSE, FALSE)
    /\ UNCHANGED <<todo_file, done_file, sessions, last_reload_time, file_watcher_rx,
                   now, today, next_uuid, crashed, rpc, watch, twin,
                   monitor_lock, pc>>

\* The two mutation primitives applied to a file in any order.
NextFile ==
    \/ FileAddMissingIds
    \/ FileMarkComplete

SpecFile ==
    InitFile /\ [][NextFile]_vars

\* The parser applied to a file.
NextLoad ==
    FileLoad

SpecLoad ==
    InitFile /\ [][NextLoad]_vars

(***************************************************************************)
(* Properties of the file operations                                       *)
(***************************************************************************)

\* The lines of a file as str::lines yields them; none while it is absent.
LinesOf(f) ==
    IF f = << >> THEN << >> ELSE lines(f[1])

HasId(line) ==
    parse(line, 1).id # << >>

\* The line is the record mark_complete looks for.
IsTarget(line, todo_id) ==
    ~IsBlank(line) /\ parse(line, 1).id = <<todo_id>>

Targets(ls, todo_id) ==
    {i \in 1..Len(ls) : IsTarget(ls[i], todo_id)}

Others(ls, todo_id) ==
    LET Keep(l) == ~IsTarget(l, todo_id)
    IN  SelectSeq(ls, Keep)

\* The step is a mark_complete that returned Ok on a file where exactly one
\* line carries the identifier asked for.
MarkCompleteMoved ==
    /\ last_op'.op = "mark_complete"
    /\ last_op'.result = "Ok"
    /\ Cardinality(Targets(LinesOf(todo_file), last_op'.arg)) = 1

\* That line.
TargetLine ==
    LET ls == LinesOf(todo_file)
    IN  ls[CHOOSE i \in Targets(ls, last_op'.arg) : TRUE]

\* The step added exactly one line to done.txt.
OneLineAdded ==
    /\ Len(LinesOf(done_file')) = Len(LinesOf(done_file)) + 1
    /\ SubSeq(LinesOf(done_file'), 1, Len(LinesOf(done_file))) = LinesOf(done_file)

AddedLine ==
    LinesOf(done_file')[Len(LinesOf(done_file'))]

\* C6: mark_complete(file, id), when a line with that identifier exists,
\* moves exactly that record: todo.txt keeps every other line, blank lines
\* included, in the original order, and done.txt is its previous content plus
\* exactly one line, the original line verbatim if it was already completed.
C6_MovesExactlyThatRecord ==
    [][MarkCompleteMoved =>
          /\ LinesOf(todo_file') = Others(LinesOf(todo_file), last_op'.arg)
          /\ OneLineAdded
          /\ parse(TargetLine, 1).completed => AddedLine = TargetLine]_vars

\* The done line the field order "marker, priority, completion date, rest"
\* asks for, the priority being the one Item::parse finds.
ExpectedDoneLine(line, todo, day) ==
    IF todo.priority # << >>
    THEN <<"x", " ", "(", todo.priority[1], ")", " ">> \o day \o <<" ">>
         \o trim_start(SubSeq(trim_start(line), 4, Len(trim_start(line))))
    ELSE <<"x", " ">> \o day \o <<" ">> \o line

\* C7: an incomplete line completed on day D yields 'x P D rest' when it
\* began with a priority token P, rest being what followed P, and
\* 'x D line' otherwise.
C7_DoneLineFieldOrder ==
    [][(MarkCompleteMoved /\ ~parse(TargetLine, 1).completed) =>
          /\ OneLineAdded
          /\ AddedLine = ExpectedDoneLine(TargetLine, parse(TargetLine, 1), today)]_vars

TokensOf(item) ==
    split_whitespace(lines(todo_file[1])[item.line_number])

\* The tokens after the completion marker and the completion date, if a date
\* follows the marker.
AfterMarker(toks) ==
    IF Len(toks) >= 2 /\ IsDate(toks[2]) THEN SubSeq(toks, 3, Len(toks))
    ELSE Tail(toks)

\* '(' , an ASCII uppercase letter, ')'
IsPriorityWord(tok) ==
    /\ Len(tok) = 3
    /\ tok[1] = "("
    /\ is_ascii_uppercase(tok[2])
    /\ tok[3] = ")"

\* The priority a token sequence opens with: the letter of its first token if
\* that is a priority word, none otherwise.
LeadingPriority(toks) ==
    IF toks # << >> /\ IsPriorityWord(Head(toks)) THEN <<Head(toks)[2]>> ELSE << >>

C9_AddMissingIdsIdempotent ==
    [][(last_op'.op = "add_missing_ids" /\ last_op'.repeat) =>
          (~last_op'.wrote /\ todo_file' = todo_file)]_vars

\* A second run in a row, after a first run that had identifiers to add.
C9_Witness ==
    /\ last_op.op = "add_missing_ids"
    /\ last_op.repeat
    /\ last_op.result = "Ok"
    /\ next_uuid > 0
    /\ \E i \in 1..Len(LinesOf(todo_file)) : IsBlank(LinesOf(todo_file)[i])

\* after is before followed by " id:" and a token without whitespace.
IsWithFreshId(before, after) ==
    /\ Len(after) > Len(before) + 4
    /\ SubSeq(after, 1, Len(before) + 4) = before \o <<" ", "i", "d", ":">>
    /\ \A k \in (Len(before) + 5)..Len(after) : ~IsWhitespace(after[k])

LacksId(line) ==
    ~IsBlank(line) /\ ~HasId(line)

\* C10: after add_missing_ids succeeds every non-blank line carries an
\* identifier, the number and order of the lines is preserved, blank lines
\* and lines with an identifier are unchanged, every other line is its
\* original text followed by " id:<token>", and the file was written only
\* if some line lacked an identifier.
C10_EnsureIdentifiers ==
    [][(last_op'.op = "add_missing_ids" /\ last_op'.result = "Ok") =>
          LET before == LinesOf(todo_file)
              after == LinesOf(todo_file')
          IN  /\ \A i \in 1..Len(after) : ~IsBlank(after[i]) => HasId(after[i])
              /\ Len(after) = Len(before)
              /\ \A i \in 1..Len(before) :
                    IF LacksId(before[i]) THEN IsWithFreshId(before[i], after[i])
                    ELSE after[i] = before[i]
              /\ last_op'.wrote => \E i \in 1..Len(before) : LacksId(before[i])]_vars

(***************************************************************************)
(* The application: the keys, the reloads and the watcher, interleaved as  *)
(* the main loop runs them (one handler at a time, in any order)           *)
(***************************************************************************)

\* The records of the application's runs: two projects, the second record in
\* both.
NavLines ==
    { Words(<<<<"t">>, <<"+", "q">>, Id("1")>>),
      Words(<<<<"t">>, <<"+", "p">>, <<"+", "q">>, Id("2")>>) }

MaxNavLines ==
    2

\* todo.txt as an editor writes it: every line ends with a line feed.
Written(ls) ==
    IF ls = << >> THEN << >> ELSE join(ls, <<NL>>) \o <<NL>>

\* The lines of a file are distinct.
Distinct(ls) ==
    \A i, j \in 1..Len(ls) : ls[i] = ls[j] => i = j

NavFiles ==
    {Written(ls) : ls \in {q \in SeqsUpTo(NavLines, MaxNavLines) : Distinct(q)}}

\* The identifiers of the lines of a file.
RECURSIVE IdsIn(_)
IdsIn(ls) ==
    IF ls = << >> THEN {}
    ELSE (IF IsBlank(Head(ls)) THEN {} ELSE {parse(Head(ls), 1).id}) \cup IdsIn(Tail(ls))

\* What the remote editor answers to the calls of one handler.
NetOk ==
    [enew |-> TRUE, open_term |-> <<"chan", 7>>, send |-> TRUE]

Nets ==
    { NetOk,
      [NetOk EXCEPT !.enew = FALSE],
      [NetOk EXCEPT !.open_term = <<"err">>],
      [NetOk EXCEPT !.open_term = <<"other">>],
      [NetOk EXCEPT !.send = FALSE] }

NavKeys ==
    {"h", "j", "k", "l"}

CompleteIOs ==
    {"none", "read_todo", "read_reload"}

ReloadIOs ==
    {"none", "read_ids", "write_ids", "read_reload"}

\* The sessions the poller found.
SessionLists ==
    {<<"Working", "Idle">>}

\* The clock stops at MaxTime.
MaxTime ==
    400

\* At most MaxQueue events wait in the channel.
MaxQueue ==
    1

ModifyTodo ==
    [name |-> TodoName, kind |-> "Modify"]

\* Start-up: the records are loaded from a file whose lines carry
\* identifiers, then AppState::new; the monitor column is there or not.
InitApp ==
    /\ todo_file \in {<<c>> : c \in NavFiles \ {<< >>}}
    /\ done_file = << >>
    /\ state \in {new(load_todos(todo_file)[1], monitor) : monitor \in BOOLEAN}
    /\ sessions \in SessionLists
    /\ last_reload_time = << >>
    /\ file_watcher_rx = << >>
    /\ now = 0
    /\ today = Day2
    /\ next_uuid = 0
    /\ crashed = FALSE
    /\ rpc = << >>
    /\ last_op = NoOp
    /\ watch = NoWatch
    /\ monitor_lock = "free"
    /\ pc = Idle

\* The last operation and the calls it sent are remembered when observe is
\* set.
Remember(observe, op, calls) ==
    IF observe THEN last_op' = op /\ rpc' = calls
    ELSE UNCHANGED <<last_op, rpc>>

\* What the remote editor answered to the calls sent, in their order: whether
\* "enew" and nvim_chan_send were sent, and what nvim_open_term returned.
\* The outcome of the other calls is only logged.
RECURSIVE Answered(_, _)
Answered(calls, net) ==
    IF calls = << >> THEN << >>
    ELSE (CASE Head(calls).call = "enew" -> <<net.enew>>
            [] Head(calls).call = "nvim_open_term" -> <<net.open_term[1]>>
            [] Head(calls).call = "nvim_chan_send" -> <<net.send>>
            [] OTHER -> << >>)
         \o Answered(Tail(calls), net)

\* handle_keyboard_event on 'h', 'j', 'k', 'l'.  What is remembered: the key,
\* the calls sent and what was answered to them.
Key(observe) ==
    /\ ~crashed
    /\ \E key_char \in NavKeys, net \in Nets :
       \E r \in {handle_navigation_key(state, key_char, sessions, now, net)} :
          /\ state' = r.st
          /\ Remember(observe,
                      Op(key_char, Answered(r.rpc, net), "Ok", FALSE, FALSE), r.rpc)
    /\ UNCHANGED <<todo_file, done_file, sessions, last_reload_time, file_watcher_rx,
                   now, today, next_uuid, crashed, watch, twin,
                   monitor_lock, pc>>

NavigationKey ==
    Key(FALSE)

\* handle_keyboard_event on 'x', ios being the file operations that may fail.
\* What is remembered: the identifier selected before the key, the operation
\* that failed, what mark_complete returned and whether todo.txt changed.
Complete(observe, ios) ==
    /\ ~crashed
    /\ IF done_file = << >> THEN TRUE ELSE Len(lines(done_file[1])) < MaxDoneLines
    /\ \E io \in ios :
       \E r \in {handle_complete_todo(state, todo_file, done_file, today, io)} :
          /\ state' = r.st
          /\ todo_file' = r.file
          /\ done_file' = r.done
          /\ crashed' = r.panic
          /\ Remember(observe,
                      Op("x", [id |-> get_current_todo_id(state), io |-> io],
                         r.result, r.file # todo_file, FALSE),
                      r.rpc)
    /\ UNCHANGED <<sessions, last_reload_time, file_watcher_rx, now, today,
                   next_uuid, watch, twin, monitor_lock, pc>>

CompleteKey ==
    Complete(FALSE, CompleteIOs)

\* handle_keyboard_event on 'r'.  What is remembered: the file operation that
\* failed, what add_missing_ids returned and whether it wrote todo.txt.
Reload(observe) ==
    /\ ~crashed
    /\ \E io \in ReloadIOs :
       \E r \in {handle_reload(state, todo_file, next_uuid, io)} :
          /\ r.drawn <= MaxUuid
          /\ state' = r.st
          /\ todo_file' = r.file
          /\ next_uuid' = r.drawn
          /\ Remember(observe, Op("r", <<io>>, r.ids, r.wrote, FALSE), r.rpc)
    /\ UNCHANGED <<done_file, sessions, last_reload_time, file_watcher_rx, now,
                   today, crashed, watch, twin, monitor_lock, pc>>

ReloadKey ==
    Reload(FALSE)

\* What is remembered of a tick that drained events at time now and yielded r.
Observed(events, r) ==
    [reload_times |-> IF r.reloaded THEN Append(watch.reload_times, now)
                      ELSE watch.reload_times,
     deferred |-> IF r.reloaded THEN FALSE
                  ELSE IF ShouldReload(events) THEN TRUE
                  ELSE watch.deferred,
     tick |-> <<[t |-> now,
                 drained |-> events,
                 modify |-> ShouldReload(events),
                 reloads |-> IF r.reloaded THEN 1 ELSE 0,
                 since |-> IF watch.reload_times = << >> THEN << >>
                           ELSE <<watch.reload_times[Len(watch.reload_times)]>>]>>]

\* handle_file_watcher_events, once per iteration of the main loop; the
\* ticks are remembered when observe is set.
Tick(observe) ==
    /\ ~crashed
    /\ \E io \in ReloadIOs :
       \E r \in {handle_file_watcher_events(last_reload_time, file_watcher_rx, state,
                                            todo_file, now, next_uuid, io)} :
          /\ r.drawn <= MaxUuid
          /\ state' = r.st
          /\ todo_file' = r.file
          /\ next_uuid' = r.drawn
          /\ last_reload_time' = r.last_reload_time
          /\ file_watcher_rx' = << >>
          /\ watch' = IF observe THEN Observed(file_watcher_rx, r) ELSE watch
          /\ Remember(observe,
                      Op("tick", <<io>>, r.ids, r.wrote, FALSE),
                      r.rpc)
    /\ UNCHANGED <<done_file, sessions, now, today, crashed, twin,
                   monitor_lock, pc>>

WatcherTick ==
    Tick(FALSE)

\* maybe_update_preview, once per iteration of the main loop; the time of
\* the tick and the outcome of its push are remembered when observe is set.
Preview(observe) ==
    /\ ~crashed
    /\ \E net \in Nets :
       \E r \in {maybe_update_preview(state, sessions, now, net)} :
          /\ state' = r.st
          /\ Remember(observe,
                      Op("preview", <<now>>, Answered(r.rpc, net), FALSE, FALSE),
                      r.rpc)
    /\ UNCHANGED <<todo_file, done_file, sessions, last_reload_time, file_watcher_rx,
                   now, today, next_uuid, crashed, watch, twin,
                   monitor_lock, pc>>

PreviewTick ==
    Preview(FALSE)

\* Another program writes todo.txt.  Identifiers are not reused: it brings
\* back no identifier that went to done.txt.
ExternalWrite ==
    /\ ~crashed
    /\ \E c \in NavFiles :
          /\ IdsIn(lines(c)) \cap IdsIn(LinesOf(done_file)) = {}
          /\ todo_file' = <<c>>
    /\ UNCHANGED <<state, done_file, sessions, last_reload_time, file_watcher_rx,
                   now, today, next_uuid, crashed, rpc, last_op, watch, twin,
                   monitor_lock, pc>>

\* The watcher thread sends an event.
Notify(events) ==
    /\ ~crashed
    /\ Len(file_watcher_rx) < MaxQueue
    /\ \E e \in events : file_watcher_rx' = Append(file_watcher_rx, e)
    /\ UNCHANGED <<state, todo_file, done_file, sessions, last_reload_time, now,
                   today, next_uuid, crashed, rpc, last_op, watch, twin,
                   monitor_lock, pc>>

\* Time passes.
AdvanceBy(steps) ==
    /\ ~crashed
    /\ \E d \in steps :
          /\ now + d <= MaxTime
          /\ now' = now + d
    /\ UNCHANGED <<state, todo_file, done_file, sessions, last_reload_time,
                   file_watcher_rx, today, next_uuid, crashed, rpc, last_op, watch, twin,
                   monitor_lock, pc>>

TodoModified ==
    Notify({ModifyTodo})

Advance ==
    AdvanceBy({MaxTime})

Init ==
    InitApp /\ twin = << >>

Next ==
    \/ NavigationKey
    \/ CompleteKey
    \/ ReloadKey
    \/ WatcherTick
    \/ PreviewTick
    \/ ExternalWrite
    \/ TodoModified
    \/ Advance

Spec ==
    Init /\ [][Next]_vars

\* The length of the record list of a project column, 0 on the monitor
\* column.
ColumnLen(s) ==
    IF CurrentTodos(s) = << >> THEN 0 ELSE Len(CurrentTodos(s)[1])

\* C1: while there are records the selection is never dangling:
\* current_column < total_columns(), and on a project column
\* selected_in_column < the length of the column's record list.
C1_SelectionNeverDangling ==
    state.todos # << >> =>
        /\ state.current_column < total_columns(state)
        /\ state.current_column < Len(state.project_names) =>
               state.selected_in_column < ColumnLen(state)

\* C2: the preview is active only while the current column is the monitor
\* column, whatever operation moved the selection.
C2_PreviewOnlyOnMonitorColumn ==
    state.preview_active => is_on_claude_column(state)

(***************************************************************************)
(* Two runs fed the same keys, reloads and file, the remote editor         *)
(* answering each as it likes                                              *)
(***************************************************************************)

InitTwin ==
    InitApp /\ twin = <<state>>

TwinKey ==
    /\ ~crashed
    /\ \E key_char \in NavKeys, net1 \in Nets, net2 \in Nets :
          /\ state' = handle_navigation_key(state, key_char, sessions, now, net1).st
          /\ twin' = <<handle_navigation_key(twin[1], key_char, sessions, now, net2).st>>
    /\ UNCHANGED <<todo_file, done_file, sessions, last_reload_time, file_watcher_rx,
                   now, today, next_uuid, crashed, rpc, last_op, watch,
                   monitor_lock, pc>>

TwinReload ==
    /\ ~crashed
    /\ \E io \in ReloadIOs :
       \E r \in {handle_reload(state, todo_file, next_uuid, io)} :
          /\ r.drawn <= MaxUuid
          /\ state' = r.st
          /\ twin' = <<handle_reload(twin[1], todo_file, next_uuid, io).st>>
          /\ todo_file' = r.file
          /\ next_uuid' = r.drawn
    /\ UNCHANGED <<done_file, sessions, last_reload_time, file_watcher_rx, now,
                   today, crashed, rpc, last_op, watch, monitor_lock, pc>>

TwinPreview ==
    /\ ~crashed
    /\ \E net1 \in Nets, net2 \in Nets :
          /\ state' = maybe_update_preview(state, sessions, now, net1).st
          /\ twin' = <<maybe_update_preview(twin[1], sessions, now, net2).st>>
    /\ UNCHANGED <<todo_file, done_file, sessions, last_reload_time, file_watcher_rx,
                   now, today, next_uuid, crashed, rpc, last_op, watch,
                   monitor_lock, pc>>

NextTwin ==
    \/ TwinKey
    \/ TwinReload
    \/ TwinPreview
    \/ ExternalWrite

SpecTwin ==
    InitTwin /\ [][NextTwin]_vars

\* C3: two runs that differ only in what the RPC calls return end with the
\* same current_column, selected_in_column and claude_selected_index, and
\* neither aborts.
C3_RpcOutcomesDoNotSteer ==
    twin # << >> =>
        /\ ~crashed
        /\ state.current_column = twin[1].current_column
        /\ state.selected_in_column = twin[1].selected_in_column
        /\ state.claude_selected_index = twin[1].claude_selected_index

(***************************************************************************)
(* The watcher on its own: events, ticks and the clock                     *)
(***************************************************************************)

\* The events the watcher of the directory sends.
Events ==
    { ModifyTodo,
      [name |-> TodoName, kind |-> "Create"],
      [name |-> "done.txt", kind |-> "Modify"] }

InitWatch ==
    /\ InitApp
    /\ twin = << >>
    /\ ~state.claude_sessions_enabled
    /\ Len(state.todos) = 1

ObservedTick ==
    Tick(TRUE)

WatcherEvent ==
    Notify(Events)

AdvanceFine ==
    AdvanceBy({50, 250})

NextWatch ==
    \/ ObservedTick
    \/ WatcherEvent
    \/ AdvanceFine

SpecWatch ==
    InitWatch /\ [][NextWatch]_vars

\* C4: a reload skipped by the debounce is deferred, not dropped: the tick
\* that finds 200 ms elapsed since the last watcher reload performs it, even
\* if no further event arrived.
C4_DeferredReloadPerformed ==
    [][(/\ ObservedTick
        /\ watch.deferred
        /\ last_reload_time # << >>
        /\ now - last_reload_time[1] >= DebounceMs) =>
          watch'.tick[1].reloads = 1]_vars

\* The tick last remembered.
LastTick ==
    watch.tick[1]

IdLines ==
    { << >>,
      Words(<<<<"t">>>>),
      Words(<<<<"t">>, Id("1")>>),
      Words(<<<<"(", "B", ")">>, <<"t">>, <<"+", "q">>, Id("2")>>),
      Words(<<<<"t">>, <<"i", "d", ":">>>>) }

InitIds ==
    /\ todo_file \in {<<c>> : c \in Contents(SeqsUpTo(IdLines, MaxFileLines))}
    /\ done_file = << >>
    /\ state = new(<< >>, FALSE)
    /\ sessions = << >>
    /\ last_reload_time = << >>
    /\ file_watcher_rx = << >>
    /\ now = 0
    /\ today = Day2
    /\ next_uuid = 0
    /\ crashed = FALSE
    /\ rpc = << >>
    /\ last_op = NoOp
    /\ watch = NoWatch
    /\ monitor_lock = "free"
    /\ pc = Idle
    /\ twin = << >>

ObservedReload ==
    Reload(TRUE)

NextIds ==
    \/ ObservedReload
    \/ FileAddMissingIds
    \/ FileMarkComplete

SpecIds ==
    InitIds /\ [][NextIds]_vars

\* The identifier a line carries, << >> when it is blank or carries none.
IdCarried(line) ==
    IF IsBlank(line) THEN << >> ELSE parse(line, 1).id

\* The identifiers the lines carry, in the order of the lines.
RECURSIVE IdsCarried(_)
IdsCarried(ls) ==
    IF ls = << >> THEN << >>
    ELSE IdCarried(Head(ls)) \o IdsCarried(Tail(ls))

\* The identifiers of ids other than the one the step completed.
NotCompleted(ids) ==
    LET Keep(x) == ~(last_op'.op = "mark_complete" /\ x = last_op'.arg)
    IN  SelectSeq(ids, Keep)

\* The identifiers of ids that are among those of kept.
AmongThose(ids, kept) ==
    LET Keep(x) == \E k \in 1..Len(kept) : kept[k] = x
    IN  SelectSeq(ids, Keep)

\* Line i carries an identifier and state holds the record of line i with
\* that identifier.
LoadedWithId(ls, i, s) ==
    IdCarried(ls[i]) # << >> =>
        \E k \in 1..Len(s.todos) :
            /\ s.todos[k].line_number = i
            /\ s.todos[k].id = IdCarried(ls[i])

\* C11: identifiers are stable.  Whatever the step (a reload, an
\* ensure-identifier pass, a completion), the identifiers the lines of
\* todo.txt carried before it, the completed one apart, are carried by its
\* lines after it, in the same order; and after a reload that loaded the
\* file, the record of every line that carried an identifier has that
\* identifier.
C11_IdentifiersStable ==
    [][/\ AmongThose(IdsCarried(LinesOf(todo_file')),
                     NotCompleted(IdsCarried(LinesOf(todo_file))))
            = NotCompleted(IdsCarried(LinesOf(todo_file)))
       /\ (last_op'.op = "r" /\ state' # state) =>
              \A i \in 1..Len(LinesOf(todo_file)) :
                  LoadedWithId(LinesOf(todo_file), i, state')]_vars

\* A reload that gave identifiers to some lines and loaded a record that had
\* identifier 1 before, after a completion of another record.
C11_Witness ==
    /\ last_op.op = "r"
    /\ last_op.wrote
    /\ done_file # << >>
    /\ \E k \in 1..Len(state.todos) : state.todos[k].id = <<<<"1">>>>
    /\ \E k \in 1..Len(state.todos) : state.todos[k].id = <<Uuid(1)>>

(***************************************************************************)
(* Reconciliation: reload_todos and update_derived_state started from any  *)
(* selection                                                               *)
(***************************************************************************)

\* current_column and selected_in_column start anywhere in 0..MaxIndex.
MaxIndex ==
    3

\* An AppState built from a file, empty or not, its selection then set to
\* any column and row (as test_update_derived_state_column_bounds does).
InitDerive ==
    /\ todo_file \in {<<c>> : c \in NavFiles}
    /\ done_file = << >>
    /\ state \in {[new(load_todos(todo_file)[1], monitor)
                      EXCEPT !.current_column = c, !.selected_in_column = r] :
                   monitor \in BOOLEAN, c \in 0..MaxIndex, r \in 0..MaxIndex}
    /\ sessions \in SessionLists
    /\ last_reload_time = << >>
    /\ file_watcher_rx = << >>
    /\ now = 0
    /\ today = Day2
    /\ next_uuid = 0
    /\ crashed = FALSE
    /\ rpc = << >>
    /\ last_op = NoOp
    /\ watch = NoWatch
    /\ monitor_lock = "free"
    /\ pc = Idle
    /\ twin = << >>

\* update_derived_state on the records held
Reconcile ==
    /\ \E r \in {update_derived_state(state)} :
          /\ state' = r.st
          /\ rpc' = r.rpc
          /\ last_op' = Op("update_derived_state", << >>, "Ok", FALSE, FALSE)
    /\ UNCHANGED <<todo_file, done_file, sessions, last_reload_time, file_watcher_rx,
                   now, today, next_uuid, crashed, watch, twin,
                   monitor_lock, pc>>

\* reload_todos(todo_file), the file being one of files that another
\* program wrote, or unreadable
ReloadTodosFrom(files) ==
    /\ \E c \in files, read_ok \in BOOLEAN :
       \E r \in {reload_todos(state, IF read_ok THEN <<c>> ELSE << >>)} :
          /\ todo_file' = <<c>>
          /\ state' = r.st
          /\ rpc' = r.rpc
          /\ last_op' = Op("reload_todos", << >>, IF read_ok THEN "Ok" ELSE "Err",
                           FALSE, FALSE)
    /\ UNCHANGED <<done_file, sessions, last_reload_time, file_watcher_rx,
                   now, today, next_uuid, crashed, watch, twin,
                   monitor_lock, pc>>

ReloadTodos ==
    ReloadTodosFrom(NavFiles)

NextDerive ==
    \/ Reconcile
    \/ ReloadTodos

SpecDerive ==
    InitDerive /\ [][NextDerive]_vars

\* C12: a reload_todos whose load fails leaves the whole AppState as it was
\* (todos, grouped_todos, project_names, current_column, selected_in_column
\* and every other field): nothing is clamped and no RPC call is sent.
C12_FailedReloadLeavesState ==
    [][(last_op'.op = "reload_todos" /\ last_op'.result = "Err") =>
          /\ state' = state
          /\ rpc' = << >>]_vars

\* A failed reload in a state whose column a reconciliation would have
\* clamped.
C12_Witness ==
    /\ last_op.op = "reload_todos"
    /\ last_op.result = "Err"
    /\ state.todos # << >>
    /\ state.current_column >= total_columns(state)

\* C13: update_derived_state started from any current_column and
\* selected_in_column ends, for a non-empty record set, with
\* current_column < total_columns and, on a project column,
\* selected_in_column < the length of the column's record list; for an
\* empty record set it ends with current_column = 0.  (The code reads the
\* column and the row through get only: no index is out of bounds.)
C13_ReconciliationClamps ==
    last_op.op = "update_derived_state" =>
        IF state.todos = << >> THEN state.current_column = 0
        ELSE /\ state.current_column < total_columns(state)
             /\ state.current_column < Len(state.project_names) =>
                    state.selected_in_column < ColumnLen(state)

\* An empty record set reconciled while the monitor column is enabled.
C13_Witness ==
    /\ last_op.op = "update_derived_state"
    /\ state.todos = << >>
    /\ state.claude_sessions_enabled
    /\ state.selected_in_column > 0

(***************************************************************************)
(* The navigation keys on their own, each key and the calls it sent        *)
(* remembered                                                              *)
(***************************************************************************)

\* Records with and without identifier in two projects.
KeyLines ==
    NavLines \cup {Words(<<<<"t">>, <<"+", "q">>>>)}

KeyFiles ==
    {Written(ls) : ls \in {q \in SeqsUpTo(KeyLines, MaxNavLines) : Distinct(q)}}

\* Start-up on a file whose lines need not carry identifiers (the error of
\* add_missing_ids at start-up is ignored), empty or not; the poller found
\* sessions or none.
InitNav ==
    /\ todo_file \in {<<c>> : c \in KeyFiles}
    /\ done_file = << >>
    /\ state \in {new(load_todos(todo_file)[1], monitor) : monitor \in BOOLEAN}
    /\ sessions \in SessionLists \cup {<< >>}
    /\ last_reload_time = << >>
    /\ file_watcher_rx = << >>
    /\ now = 0
    /\ today = Day2
    /\ next_uuid = 0
    /\ crashed = FALSE
    /\ rpc = << >>
    /\ last_op = NoOp
    /\ watch = NoWatch
    /\ monitor_lock = "free"
    /\ pc = Idle
    /\ twin = << >>

ObservedKey ==
    Key(TRUE)

NextNav ==
    ObservedKey

SpecNav ==
    InitNav /\ [][NextNav]_vars

\* The step is a prev-column or next-column key that moved the selection to
\* another column.
MovedColumn ==
    /\ last_op'.op \in {"h", "l"}
    /\ state'.current_column # state.current_column

\* C14: whenever a prev-column or next-column key moves the selection and
\* the destination is an ordinary column, selected_in_column is 0 after the
\* move, also when the column left is the monitor column.
C14_RowResetOnColumnMove ==
    [][(MovedColumn /\ ~is_on_claude_column(state')) =>
          state'.selected_in_column = 0]_vars

\* The selection of s stands at the boundary the key moves towards: column
\* 0, the last column, row 0 or the last row (of the record list, or of the
\* session list on the monitor column).
AtBoundary(s, key_char) ==
    CASE key_char = "h" -> s.current_column = 0
      [] key_char = "l" -> s.current_column + 1 >= total_columns(s)
      [] key_char = "k" -> IF is_on_claude_column(s) THEN s.claude_selected_index = 0
                           ELSE s.selected_in_column = 0
      [] key_char = "j" -> IF is_on_claude_column(s)
                           THEN s.claude_selected_index + 1 >= Len(sessions)
                           ELSE s.selected_in_column + 1 >= ColumnLen(s)

\* C15: a navigation key at its boundary is a no-op: no field of the
\* AppState (selection and preview state included) changes and no RPC call
\* is sent.
C15_BoundaryKeysAreNoOps ==
    [][(last_op'.op \in NavKeys /\ AtBoundary(state, last_op'.op)) =>
          /\ state' = state
          /\ rpc' = << >>]_vars

\* A next-column key pressed on the monitor column, the preview active and
\* the second session selected: nothing was sent and nothing reset.
C15_Witness ==
    /\ last_op.op = "l"
    /\ rpc = << >>
    /\ is_on_claude_column(state)
    /\ state.preview_active
    /\ state.claude_selected_index = 1

\* The row a prev-row or next-row key aims at.
AimedRow(s, key_char) ==
    IF key_char = "j" THEN s.selected_in_column + 1 ELSE s.selected_in_column - 1

\* The focus call for a record: one call if it has an identifier, none
\* otherwise.
FocusOf(item) ==
    IF item.id = << >> THEN << >> ELSE <<[call |-> "focus", arg |-> item.id[1]]>>

\* C16: on an ordinary column a next-row or prev-row key whose aimed row is
\* in 0..len-1 changes selected_in_column by exactly +1 or -1, leaves
\* current_column, claude_selected_index and every other field unchanged,
\* and sends one focus call, for the newly selected record, if that record
\* has an identifier (and no call otherwise).
C16_RowKeysMoveByOne ==
    [][(/\ last_op'.op \in {"j", "k"}
        /\ CurrentTodos(state) # << >>
        /\ AimedRow(state, last_op'.op) \in 0..(ColumnLen(state) - 1)) =>
          /\ state' = [state EXCEPT !.selected_in_column = AimedRow(state, last_op'.op)]
          /\ rpc' = FocusOf(CurrentTodos(state)[1][AimedRow(state, last_op'.op) + 1])]_vars

\* A next-row key that moved to the second row, a record without
\* identifier: no call was sent.
C16_Witness ==
    /\ last_op.op = "j"
    /\ state.selected_in_column = 1
    /\ ~is_on_claude_column(state)
    /\ get_current_todo_id(state) = << >>
    /\ ColumnLen(state) = 2

(***************************************************************************)
(* Properties of loading and grouping                                      *)
(***************************************************************************)

\* The rank of a record's priority class: 1 for A up to 26 for Z, 27 for
\* none.
ClassRank(item) ==
    IF item.priority = << >> THEN 27
    ELSE Code(item.priority[1]) - Code("A") + 1

\* a comes before b: by priority class, then by line number.
ComesBefore(a, b) ==
    \/ ClassRank(a) < ClassRank(b)
    \/ ClassRank(a) = ClassRank(b) /\ a.line_number < b.line_number

\* The numbers (from 1) of the non-blank lines.
NonBlank(ls) ==
    {i \in 1..Len(ls) : ~IsBlank(ls[i])}

\* C17: load_todos returns the records of all non-blank lines, each with
\* its 1-based line number (blank lines counted), ordered by priority class
\* A < B < ... < Z < none and within a class by ascending line number; the
\* first record of every group is the smallest of the group in this order.
C17_LoadOrder ==
    (last_op.op = "load_todos" /\ last_op.result = "Ok") =>
        /\ Len(state.todos) = Cardinality(NonBlank(LinesOf(todo_file)))
        /\ \A i \in NonBlank(LinesOf(todo_file)) :
              \E k \in 1..Len(state.todos) :
                  state.todos[k] = parse(LinesOf(todo_file)[i], i)
        /\ \A i, j \in 1..Len(state.todos) :
              i < j => ComesBefore(state.todos[i], state.todos[j])
        /\ \A name \in DOMAIN state.grouped_todos :
              \A m \in 2..Len(state.grouped_todos[name]) :
                  ComesBefore(state.grouped_todos[name][1], state.grouped_todos[name][m])

\* A file of two records whose second line, of class A, comes before its
\* first, of class B.
C17_Witness ==
    /\ last_op.op = "load_todos"
    /\ Len(state.todos) = 2
    /\ state.todos[1].line_number = 2
    /\ state.todos[1].priority = <<"A">>
    /\ state.todos[2].priority = <<"B">>

\* Records with no, one and two group tags, one with the same tag twice, and
\* a tag that sorts before "No Project".
GroupLines ==
    { Words(<<<<"t">>, Id("1")>>),
      Words(<<<<"(", "A", ")">>, <<"t">>, <<"+", "q">>, Id("2")>>),
      Words(<<<<"t">>, <<"+", "q">>, <<"+", "p">>, Id("3")>>),
      Words(<<<<"t">>, <<"+", "p">>, <<"+", "p">>, Id("4")>>),
      Words(<<<<"t">>, <<"+", "A">>, Id("5")>>) }

MaxGroupLines ==
    2

GroupFiles ==
    {Written(ls) : ls \in {q \in SeqsUpTo(GroupLines, MaxGroupLines) : Distinct(q)}}

\* Construction from any of the files, the monitor column enabled or not.
InitGroup ==
    /\ todo_file \in {<<c>> : c \in GroupFiles}
    /\ done_file = << >>
    /\ state \in {new(load_todos(todo_file)[1], monitor) : monitor \in BOOLEAN}
    /\ sessions \in SessionLists
    /\ last_reload_time = << >>
    /\ file_watcher_rx = << >>
    /\ now = 0
    /\ today = Day2
    /\ next_uuid = 0
    /\ crashed = FALSE
    /\ rpc = << >>
    /\ last_op = NoOp
    /\ watch = NoWatch
    /\ monitor_lock = "free"
    /\ pc = Idle
    /\ twin = << >>

\* The rebuild: reload_todos on a file another program wrote
Rebuild ==
    ReloadTodosFrom(GroupFiles)

NextGroup ==
    Rebuild

SpecGroup ==
    InitGroup /\ [][NextGroup]_vars

\* The group names a record belongs to.
GroupsOf(item) ==
    IF item.projects = << >> THEN {NoProject}
    ELSE {item.projects[i] : i \in 1..Len(item.projects)}

\* How often the record of line n stands in the list g.
Occurrences(g, n) ==
    Cardinality({m \in 1..Len(g) : g[m].line_number = n})

\* C18: grouping partitions by group tag.  Every record stands exactly once
\* in the list of each group it names ("No Project" if it names none) and in
\* no other list, so no list holds a record twice.
C18_GroupingPartitions ==
    \A k \in 1..Len(state.todos) :
        \A name \in DOMAIN state.grouped_todos :
            Occurrences(state.grouped_todos[name], state.todos[k].line_number)
                = IF name \in GroupsOf(state.todos[k]) THEN 1 ELSE 0

\* The place of a record in the loaded list.
PlaceOf(item) ==
    CHOOSE k \in 1..Len(state.todos) : state.todos[k].line_number = item.line_number

\* C19: the column list is the set of group names of the grouping index in
\* strictly increasing lexicographic order, every ordinary column has at
\* least one record, the monitor column, when enabled, is the last column,
\* and the rows of a column keep the load order.
C19_ColumnLayout ==
    /\ {state.project_names[i] : i \in 1..Len(state.project_names)}
          = DOMAIN state.grouped_todos
    /\ \A i \in 1..(Len(state.project_names) - 1) :
          StrLess(state.project_names[i], state.project_names[i + 1])
    /\ \A name \in DOMAIN state.grouped_todos :
          /\ Len(state.grouped_todos[name]) >= 1
          /\ \A m \in 1..(Len(state.grouped_todos[name]) - 1) :
                PlaceOf(state.grouped_todos[name][m])
                    <= PlaceOf(state.grouped_todos[name][m + 1])
    /\ total_columns(state)
          = Len(state.project_names) + (IF state.claude_sessions_enabled THEN 1 ELSE 0)
    /\ \A c \in 0..(total_columns(state) - 1) :
          is_on_claude_column([state EXCEPT !.current_column = c])
              <=> (state.claude_sessions_enabled /\ c = total_columns(state) - 1)

\* After a rebuild: the columns "No Project", p and q (a record names q
\* before p) and the monitor column.
C19_Witness ==
    /\ last_op.op = "reload_todos"
    /\ last_op.result = "Ok"
    /\ state.claude_sessions_enabled
    /\ state.project_names = <<NoProject, <<"p">>, <<"q">>>>

(***************************************************************************)
(* The preview: the keys, the auto-push ticks and the clock                *)
(***************************************************************************)

\* The sessions the poller found: working, idle, waiting for approval.
PreviewSessions ==
    { <<"Working", "Idle">>, <<"WaitingForApproval", "Working">>, << >> }

\* The clock of the preview stops at MaxPreviewTime.
MaxPreviewTime ==
    3000

\* Start-up on one record, the monitor column enabled.
InitPreview ==
    /\ todo_file = <<Written(<<Words(<<<<"t">>, <<"+", "q">>, Id("1")>>)>>)>>
    /\ done_file = << >>
    /\ state = new(load_todos(todo_file)[1], TRUE)
    /\ sessions \in PreviewSessions
    /\ last_reload_time = << >>
    /\ file_watcher_rx = << >>
    /\ now = 0
    /\ today = Day2
    /\ next_uuid = 0
    /\ crashed = FALSE
    /\ rpc = << >>
    /\ last_op = NoOp
    /\ watch = NoWatch
    /\ monitor_lock = "free"
    /\ pc = Idle
    /\ twin = << >>

ObservedPreview ==
    Preview(TRUE)

\* Half a second or two seconds pass.
PreviewClock ==
    /\ \E d \in {500, PreviewThrottleMs} :
          /\ now + d <= MaxPreviewTime
          /\ now' = now + d
    /\ UNCHANGED <<state, todo_file, done_file, sessions, last_reload_time,
                   file_watcher_rx, today, next_uuid, crashed, rpc, last_op, watch, twin,
                   monitor_lock, pc>>

NextPreview ==
    \/ ObservedKey
    \/ ObservedPreview
    \/ PreviewClock

SpecPreview ==
    InitPreview /\ [][NextPreview]_vars

\* The status of the selected session is Working.
SelectedIsWorking ==
    /\ state.claude_selected_index < Len(sessions)
    /\ sessions[state.claude_selected_index + 1] = "Working"

\* No push succeeded yet, or the last one is two seconds old.
PushIsDue ==
    IF state.last_preview_update = << >> THEN TRUE
    ELSE now - state.last_preview_update[1] >= 2000

\* C20: an auto-push tick pushes exactly when the preview is active, the
\* selected session is Working and no push succeeded yet or at least 2 s
\* have passed since the last one: it sends one nvim_chan_send call then,
\* and none otherwise.  So a tick 500 ms after a push sends nothing, and a
\* tick on an idle or waiting session sends nothing.  (A step of the tick is
\* one that keeps the time and leaves last_op naming the tick.)
C20_AutoPushThrottled ==
    [][(last_op'.op = "preview" /\ now' = now) =>
          /\ rpc' # << >> <=>
                (state.preview_active /\ SelectedIsWorking /\ PushIsDue)
          /\ rpc' # << >> =>
                (Len(rpc') = 1 /\ rpc'[1].call = "nvim_chan_send")
          /\ (/\ state.last_preview_update # << >>
              /\ now - state.last_preview_update[1] = 500) => rpc' = << >>
          /\ ~SelectedIsWorking => rpc' = << >>]_vars

\* A tick on a working session, 500 ms after a push, that sent nothing.
C20_Witness ==
    /\ last_op.op = "preview"
    /\ rpc = << >>
    /\ state.preview_active
    /\ SelectedIsWorking
    /\ state.last_preview_update # << >>
    /\ last_op.arg = <<state.last_preview_update[1] + 500>>

(***************************************************************************)
(* mark_complete on a file that can be read                                *)
(***************************************************************************)

\* Every file operation may fail but the read of todo.txt.
ReadableMarkComplete ==
    MarkComplete(MarkIOs \ {"read_todo"})

NextMark ==
    \/ ReadableMarkComplete
    \/ FileAddMissingIds

SpecMark ==
    InitFile /\ [][NextMark]_vars

\* C21: mark_complete for an identifier that no line of todo.txt carries
\* returns Ok and does nothing on disk: todo.txt is not rewritten and
\* done.txt is neither created nor modified.
C21_UnknownIdIsNoOp ==
    [][(/\ last_op'.op = "mark_complete"
        /\ Targets(LinesOf(todo_file), last_op'.arg) = {}) =>
          /\ last_op'.result = "Ok"
          /\ ~last_op'.wrote
          /\ todo_file' = todo_file
          /\ done_file' = done_file]_vars

\* A mark_complete that returned Ok on a file whose records carry other
\* identifiers, done.txt still absent.
C21_Witness ==
    /\ last_op.op = "mark_complete"
    /\ last_op.result = "Ok"
    /\ done_file = << >>
    /\ Targets(LinesOf(todo_file), last_op.arg) = {}
    /\ \E i \in 1..Len(LinesOf(todo_file)) : HasId(LinesOf(todo_file)[i])

(***************************************************************************)
(* The mark-complete key among the navigation keys                         *)
(***************************************************************************)

\* Any file operation of mark_complete may fail, or the read of the reload.
ObservedComplete ==
    Complete(TRUE, MarkIOs \cup {"read_reload"})

NextComplete ==
    \/ ObservedComplete
    \/ ObservedKey

SpecComplete ==
    InitNav /\ [][NextComplete]_vars

\* No loaded record carries the identifier.
NoneCarries(todos, id) ==
    \A i \in 1..Len(todos) : todos[i].id # id

NextEnsure ==
    \/ ObservedReload
    \/ ObservedTick
    \/ TodoModified
    \/ Advance

SpecEnsure ==
    InitIds /\ [][NextEnsure]_vars

\* Every record has an identifier.
AllHaveIds(todos) ==
    \A i \in 1..Len(todos) : todos[i].id # << >>

\* C23: a manual reload and a reload by the watcher run add_missing_ids
\* before they load: when add_missing_ids and the load succeed, the records
\* in memory are those of the file as add_missing_ids left it and every one
\* has an identifier; when add_missing_ids fails the file is loaded all
\* the same.
C23_ReloadEnsuresIdentifiers ==
    [][(last_op'.op \in {"r", "tick"} /\ last_op'.result # "None") =>
          /\ (last_op'.result = "Ok" /\ last_op'.arg # <<"read_reload">>) =>
                /\ state'.todos = load_todos(todo_file')[1]
                /\ AllHaveIds(state'.todos)
          /\ last_op'.result = "Err" =>
                /\ todo_file' = todo_file
                /\ state'.todos = load_todos(todo_file)[1]]_vars

\* A reload by the watcher that gave identifiers to lines and loaded two
\* records.
C23_Witness ==
    /\ last_op.op = "tick"
    /\ last_op.result = "Ok"
    /\ last_op.wrote
    /\ Len(state.todos) = 2
    /\ AllHaveIds(state.todos)

(***************************************************************************)
(* The monitor column while the poller thread rewrites the session list    *)
(***************************************************************************)

\* What the poller may find: two sessions, one of them gone, none.
PollerSessions ==
    PreviewSessions \cup {<<"Working">>}

\* The poller thread stores the sessions it found in MonitorState, between
\* any two handlers of the main loop.
Poller ==
    /\ \E found \in PollerSessions \ {sessions} : sessions' = found
    /\ UNCHANGED <<state, todo_file, done_file, last_reload_time, file_watcher_rx,
                   now, today, next_uuid, crashed, rpc, last_op, watch, twin,
                   monitor_lock, pc>>

NextPoller ==
    \/ ObservedKey
    \/ ObservedPreview
    \/ PreviewClock
    \/ Poller

SpecPoller ==
    InitPreview /\ [][NextPoller]_vars

\* C24: while the monitor column is the current column and there are
\* sessions, claude_selected_index is an index of the session list after
\* every handler of the main loop (a key, an auto-push tick), whatever the
\* poller did to the list between the handlers.
C24_SessionIndexValid ==
    [][(sessions' = sessions /\ now' = now) =>
          ((is_on_claude_column(state') /\ sessions # << >>) =>
               state'.claude_selected_index < Len(sessions))]_vars

(***************************************************************************)
(* The Mutex of MonitorState: the operations of the main loop that lock    *)
(* it, statement by statement, and the poller thread                       *)
(***************************************************************************)

\* The main loop is at statement at, having copied seen.
At(at, seen) ==
    [at |-> at, seen |-> seen]

\* What a step of this section leaves alone.
NoFileChange ==
    UNCHANGED <<todo_file, done_file, last_reload_time, file_watcher_rx, now, today,
                next_uuid, crashed, rpc, last_op, watch, twin>>

\* update_preview_content: monitor_state.lock() (app_state.rs:305-310)
UpdatePreviewLock ==
    /\ pc = Idle
    /\ is_on_claude_column(state)
    /\ monitor_lock = "free"
    /\ monitor_lock' = "main"
    /\ pc' = At("copy_pane_id", << >>)
    /\ NoFileChange /\ UNCHANGED <<state, sessions>>

\* sessions.get(claude_selected_index), the clone of the pane id and the end
\* of the block, which drops the guard; then the test of terminal_channel
\* (app_state.rs:311-319)
UpdatePreviewCopy ==
    /\ pc.at = "copy_pane_id"
    /\ monitor_lock' = "free"
    /\ pc' = IF /\ state.claude_selected_index < Len(sessions)
                /\ state.terminal_channel # << >>
             THEN At("capture_pane", sessions)
             ELSE Idle
    /\ NoFileChange /\ UNCHANGED <<state, sessions>>

\* tmux::capture_pane_with_ansi(&pane_id) (app_state.rs:321)
CapturePane ==
    /\ pc.at = "capture_pane"
    /\ pc' = At("nvim_chan_send", pc.seen)
    /\ NoFileChange /\ UNCHANGED <<state, sessions, monitor_lock>>

\* send_nvim_rpc_raw(&payload) and the match on its result
\* (app_state.rs:331-337)
ChanSend ==
    /\ pc.at = "nvim_chan_send"
    /\ \E net \in Nets :
          state' = update_preview_content(state, pc.seen, now, net).st
    /\ pc' = Idle
    /\ NoFileChange /\ UNCHANGED <<sessions, monitor_lock>>

\* handle_switch_tmux_pane: the tests and monitor_state.lock()
\* (app_state.rs:252-260)
SwitchPaneLock ==
    /\ pc = Idle
    /\ is_on_claude_column(state)
    /\ monitor_lock = "free"
    /\ monitor_lock' = "main"
    /\ pc' = At("get_session", << >>)
    /\ NoFileChange /\ UNCHANGED <<state, sessions>>

\* lock.sessions.get(claude_selected_index): the session is borrowed from
\* the guard, which lives to the end of the function; the early return drops
\* it (app_state.rs:261-263)
SwitchPaneGet ==
    /\ pc.at = "get_session"
    /\ IF state.claude_selected_index < Len(sessions)
       THEN pc' = At("switch_to_pane", sessions) /\ UNCHANGED monitor_lock
       ELSE pc' = Idle /\ monitor_lock' = "free"
    /\ NoFileChange /\ UNCHANGED <<state, sessions>>

\* tmux::switch_to_pane(&session.pane.id), then the end of the function,
\* which drops the guard (app_state.rs:264-265)
SwitchToPane ==
    /\ pc.at = "switch_to_pane"
    /\ monitor_lock' = "free"
    /\ pc' = Idle
    /\ NoFileChange /\ UNCHANGED <<state, sessions>>

\* A navigation key between two operations; what it reads of the session
\* list it reads with the lock taken and dropped within the handler.
IdleKey ==
    /\ pc = Idle
    /\ monitor_lock = "free"
    /\ NavigationKey

\* The poller thread locks MonitorState.
PollerLock ==
    /\ monitor_lock = "free"
    /\ monitor_lock' = "poller"
    /\ NoFileChange /\ UNCHANGED <<state, sessions, pc>>

\* The poller thread stores what it found and drops the guard.
PollerStore ==
    /\ monitor_lock = "poller"
    /\ sessions' \in PollerSessions
    /\ monitor_lock' = "free"
    /\ NoFileChange /\ UNCHANGED <<state, pc>>

NextLock ==
    \/ UpdatePreviewLock
    \/ UpdatePreviewCopy
    \/ CapturePane
    \/ ChanSend
    \/ SwitchPaneLock
    \/ SwitchPaneGet
    \/ SwitchToPane
    \/ IdleKey
    \/ PollerLock
    \/ PollerStore

SpecLock ==
    InitPreview /\ [][NextLock]_vars

\* The statements that are external I/O: the capture of a pane, the RPC
\* call, the switch to a pane.
ExternalIO ==
    {"capture_pane", "nvim_chan_send", "switch_to_pane"}

\* C25: the main loop never holds the lock of the session list while it
\* performs an RPC call, a pane capture or a pane switch: what it needs is
\* copied out and the lock released before the I/O starts.
C25_NoLockAcrossIO ==
    pc.at \in ExternalIO => monitor_lock # "main"

(***************************************************************************)
(* The order of the two writes of mark_complete                            *)
(***************************************************************************)

\* The step is a mark_complete that changed todo.txt, on a file where
\* exactly one line carried the identifier asked for.
MarkCompleteRewrote ==
    /\ last_op'.op = "mark_complete"
    /\ todo_file' # todo_file
    /\ Cardinality(Targets(LinesOf(todo_file), last_op'.arg)) = 1

\* Some line of the file carries the identifier.
Holds(f, todo_id) ==
    Targets(LinesOf(f), todo_id) # {}

\* C26: mark_complete appends the completed line to done.txt before it
\* rewrites todo.txt.  Whatever file operation fails, the record is in one
\* of the two files after the call: a call that fails or panics, or that
\* leaves done.txt as it was (its write of done.txt failed), leaves
\* todo.txt untouched, and the record leaves todo.txt only in a call that
\* added it to done.txt.
C26_DoneWrittenBeforePrimary ==
    [][/\ last_op'.op = "mark_complete" =>
             /\ last_op'.result # "Ok" => todo_file' = todo_file
             /\ done_file' = done_file => todo_file' = todo_file
       /\ MarkCompleteRewrote =>
             /\ OneLineAdded
             /\ \E added \in {AddedLine} : parse(added, 1).id = <<last_op'.arg>>]_vars

\* The state between the two writes: the call failed after it appended the
\* record to done.txt, and todo.txt still holds it.
C26_Witness ==
    /\ last_op.op = "mark_complete"
    /\ last_op.result = "Err"
    /\ Holds(todo_file, last_op.arg)
    /\ Holds(done_file, last_op.arg)

(***************************************************************************)
(* Entering and leaving the monitor column                                 *)
(***************************************************************************)

\* The step is a next-column key that moved the selection onto the monitor
\* column.
EnteredMonitor ==
    /\ last_op'.op = "l"
    /\ state'.current_column # state.current_column
    /\ is_on_claude_column(state')

\* The create-buffer call was sent and the open-channel call returned an
\* integer.
EnterSucceeded ==
    /\ Len(last_op'.arg) >= 2
    /\ last_op'.arg[1] = TRUE
    /\ last_op'.arg[2] = "chan"

\* C27: a next-column key that enters the monitor column sets
\* claude_selected_index to 0 and sends "enew" first, then nvim_open_term,
\* the second only if the first was sent.  When both succeed the preview is
\* active with the channel returned and no push recorded
\* (last_preview_update is None); when one fails, or nvim_open_term returns
\* no integer, the preview is inactive and there is no channel.
C27_EnterProtocol ==
    [][EnteredMonitor =>
          /\ state'.claude_selected_index = 0
          /\ rpc'[1].call = "enew"
          /\ IF last_op'.arg[1] = TRUE
             THEN rpc'[2].call = "nvim_open_term"
             ELSE Len(rpc') = 1
          /\ IF EnterSucceeded
             THEN /\ state'.preview_active
                  /\ state'.terminal_channel = <<NetOk.open_term[2]>>
                  /\ state'.last_preview_update = << >>
             ELSE /\ ~state'.preview_active
                  /\ state'.terminal_channel = << >>
                  /\ state'.last_preview_update = << >>]_vars

\* The step is a prev-column key that left the monitor column while the
\* preview was active.
LeftActivePreview ==
    /\ last_op'.op = "h"
    /\ is_on_claude_column(state)
    /\ state.preview_active
    /\ state'.current_column # state.current_column

\* C28: a prev-column key that leaves the monitor column while the preview
\* is active discards the channel handle and resets the preview to inactive
\* with last_preview_update cleared; the one call it sends is the focus
\* call for the record then selected on the ordinary column, if that record
\* has an identifier.
C28_LeaveTearsDownThenFocuses ==
    [][LeftActivePreview =>
          /\ ~state'.preview_active
          /\ state'.terminal_channel = << >>
          /\ state'.last_preview_update = << >>
          /\ ~is_on_claude_column(state')
          /\ state'.selected_in_column < ColumnLen(state')
          /\ rpc' = FocusOf(CurrentTodos(state')[1][state'.selected_in_column + 1])]_vars

\* A prev-column key that went through the teardown (the row is the one
\* the column had before the monitor column was entered) and sent the focus
\* call of the record on that row.
C28_Witness ==
    /\ last_op.op = "h"
    /\ state.selected_in_column = 1
    /\ ~state.preview_active
    /\ state.terminal_channel = << >>
    /\ Len(rpc) = 1
    /\ rpc[1].call = "focus"

(***************************************************************************)
(* The row keys on the monitor column                                      *)
(***************************************************************************)

\* i brought into lo..hi, lo when the range is empty.
Clamped(i, lo, hi) ==
    IF i > hi THEN (IF hi < lo THEN lo ELSE hi)
    ELSE IF i < lo THEN lo
    ELSE i

\* The session index a row key aims at: one more or one less, within
\* 0..(number of sessions - 1).
AimedSession(s, key_char, count) ==
    Clamped(IF key_char = "j" THEN s.claude_selected_index + 1
            ELSE s.claude_selected_index - 1,
            0, count - 1)

\* The push of the session at index i on channel chan.
PushOf(chan, i) ==
    <<[call |-> "nvim_chan_send", arg |-> <<chan, i>>]>>

\* C29: on the monitor column a next-row or prev-row key moves only
\* claude_selected_index, by one within 0..(number of sessions - 1):
\* selected_in_column, current_column and every other field but
\* last_preview_update are unchanged.  A key that moved the index pushes the
\* preview at once, however recent the last push, if there is a channel,
\* and sends nothing otherwise; last_preview_update becomes the time of the
\* key when that push was sent, and is unchanged when it failed or no push
\* was made.  (The clock alone leaves last_op as it was, so a step of a key
\* is one that keeps the time.)
C29_MonitorRowKeys ==
    [][(last_op'.op \in {"j", "k"} /\ now' = now /\ is_on_claude_column(state)) =>
          \E aim \in {AimedSession(state, last_op'.op, Len(sessions))} :
             /\ state' = [state EXCEPT !.claude_selected_index = aim,
                                       !.last_preview_update = state'.last_preview_update]
             /\ rpc' = IF aim # state.claude_selected_index
                          /\ state.terminal_channel # << >>
                       THEN PushOf(state.terminal_channel[1], aim)
                       ELSE << >>
             /\ state'.last_preview_update =
                    IF last_op'.arg = <<TRUE>> THEN <<now>>
                    ELSE state.last_preview_update]_vars

\* A next-row key 500 ms after the last push: it moved to the second
\* session and pushed, the call failed and the time of the last push stayed.
C29_Witness ==
    /\ last_op.op = "j"
    /\ last_op.arg = <<FALSE>>
    /\ state.claude_selected_index = 1
    /\ Len(rpc) = 1
    /\ state.last_preview_update = <<now - 500>>

(***************************************************************************)
(* The focus command of a reload: reload_todos started from any selection, *)
(* on files some of whose records have no identifier                       *)
(***************************************************************************)

\* The records of NavLines and a record of project q without an identifier
\* (reload_todos itself adds none).
FocusLines ==
    NavLines \cup { Words(<<<<"u">>, <<"+", "q">>>>) }

FocusFiles ==
    {Written(ls) : ls \in {q \in SeqsUpTo(FocusLines, MaxNavLines) : Distinct(q)}}

ReloadFocus ==
    ReloadTodosFrom(FocusFiles)

NextFocus ==
    ReloadFocus

SpecFocus ==
    InitDerive /\ [][NextFocus]_vars

\* The record under the selection of a project column.
SelectedRecord(s) ==
    s.grouped_todos[s.project_names[s.current_column + 1]][s.selected_in_column + 1]

\* C30: a reload_todos whose load succeeded sends exactly one RPC call, the
\* focus command of the record selected after the clamping, when the
\* selection then is on a project column and that record has an identifier;
\* it sends no call when the selection then is on the monitor column or the
\* record set is empty (nor when the selected record has no identifier).
C30_ReloadFocusesOnce ==
    (last_op.op = "reload_todos" /\ last_op.result = "Ok") =>
        IF is_on_claude_column(state) \/ state.todos = << >>
        THEN rpc = << >>
        ELSE IF SelectedRecord(state).id # << >>
        THEN rpc = <<Focus(SelectedRecord(state).id[1])>>
        ELSE rpc = << >>

\* A reload that clamped the selection to the last project column and its
\* last row, and focused the record there.
C30_Witness ==
    /\ last_op.op = "reload_todos"
    /\ last_op.result = "Ok"
    /\ ~state.claude_sessions_enabled
    /\ Len(state.project_names) = 2
    /\ state.current_column = 1
    /\ state.selected_in_column = 1
    /\ rpc = <<Focus("2")>>

(***************************************************************************)
(* parse_rpc_result on the frames a peer can answer with                   *)
(***************************************************************************)

\* rmpv::Value: Nil, an Integer, a String, or an Array of values.
Nil ==
    [kind |-> "Nil", text |-> ""]

Integer42 ==
    [kind |-> "Integer", text |-> "42"]

SomeError ==
    [kind |-> "String", text |-> "some error"]

Scalars ==
    {Nil, Integer42, SomeError}

Array(items) ==
    [kind |-> "Array", items |-> items]

\* The longest frame answered.
MaxArity ==
    5

\* What read_value can decode: a scalar, or an array of up to MaxArity
\* scalars.
Responses ==
    Scalars \cup {Array(items) : items \in SeqsUpTo(Scalars, MaxArity)}

OkValue(v) ==
    [ok |-> TRUE, value |-> v, error |-> ""]

\* Err(format!("Neovim RPC error: {}", items[2])): the error carries the
\* value of the frame's error field.
RpcError(v) ==
    [ok |-> FALSE, value |-> v, error |-> "Neovim RPC error"]

FormatError ==
    [ok |-> FALSE, value |-> Nil, error |-> "Invalid RPC response format"]

\* app_state.rs:41-51 (items[2] and items[3] are the third and the fourth
\* element)
parse_rpc_result(response) ==
    IF response.kind = "Array" /\ Len(response.items) >= 4
    THEN IF response.items[3] # Nil THEN RpcError(response.items[3])
         ELSE OkValue(response.items[4])
    ELSE FormatError

InitRpc ==
    /\ todo_file = <<<< >>>>
    /\ done_file = << >>
    /\ state = new(<< >>, FALSE)
    /\ sessions = << >>
    /\ last_reload_time = << >>
    /\ file_watcher_rx = << >>
    /\ now = 0
    /\ today = Day2
    /\ next_uuid = 0
    /\ crashed = FALSE
    /\ rpc = << >>
    /\ last_op = NoOp
    /\ watch = NoWatch
    /\ monitor_lock = "free"
    /\ pc = Idle
    /\ twin = << >>

\* send_nvim_rpc_with_result decodes one answer.
ParseRpcResult ==
    /\ \E response \in Responses :
          last_op' = Op("parse_rpc_result", response, parse_rpc_result(response),
                        FALSE, FALSE)
    /\ UNCHANGED <<state, todo_file, done_file, sessions, last_reload_time,
                   file_watcher_rx, now, today, next_uuid, crashed, rpc, watch, twin,
                   monitor_lock, pc>>

NextRpc ==
    ParseRpcResult

SpecRpc ==
    InitRpc /\ [][NextRpc]_vars

\* C31: parse_rpc_result answers a frame of four elements with the RPC
\* error carrying its error field when that field is not nil, and with its
\* result field when it is nil; it answers everything else - a value that
\* is no array, an array of fewer or of more than four elements - with the
\* protocol-format error.
C31_StrictDecoding ==
    last_op.op = "parse_rpc_result" =>
        LET response == last_op.arg IN
        IF response.kind = "Array" /\ Len(response.items) = 4
        THEN IF response.items[3] # Nil
             THEN last_op.result = RpcError(response.items[3])
             ELSE last_op.result = OkValue(response.items[4])
        ELSE last_op.result = FormatError

(***************************************************************************)
(* The drain loop of the watcher tick on events of every kind and file     *)
(***************************************************************************)

\* The events a watcher of the directory sends: todo.txt modified, created,
\* removed, or changed in another way, and done.txt modified.
DrainEvents ==
    {[name |-> TodoName, kind |-> k] : k \in {"Modify", "Create", "Remove", "Other"}}
        \cup {[name |-> "done.txt", kind |-> "Modify"]}

\* At most MaxBurst events wait in the channel.
MaxBurst ==
    2

\* The watcher thread sends an event while the main loop is elsewhere.
Burst ==
    /\ Len(file_watcher_rx) < MaxBurst
    /\ \E e \in DrainEvents : file_watcher_rx' = Append(file_watcher_rx, e)
    /\ UNCHANGED <<state, todo_file, done_file, sessions, last_reload_time, now,
                   today, next_uuid, crashed, rpc, last_op, watch, twin,
                   monitor_lock, pc>>

AdvanceCoarse ==
    AdvanceBy({250})

NextDrain ==
    \/ ObservedTick
    \/ Burst
    \/ AdvanceCoarse

SpecDrain ==
    InitWatch /\ [][NextDrain]_vars

\* Some event of the channel is a modification of the tracked file.
ModifiesTodo(events) ==
    \E i \in 1..Len(events) :
        events[i] = [name |-> TodoName, kind |-> "Modify"]

\* C32: every tick of handle_file_watcher_events leaves the channel empty;
\* a tick none of whose drained events is a modification of the tracked
\* file (they are creations, removals, of another kind, or of another
\* file) leaves the AppState, last_reload_time and todo.txt unchanged and
\* sends nothing; so a tick reloads only if it drained a modification of
\* the tracked file.  (A step of the tick keeps the time and adds no
\* event.)
C32_OnlyModifyOfTodoReloads ==
    [][(/\ last_op'.op = "tick"
        /\ now' = now
        /\ Len(file_watcher_rx') <= Len(file_watcher_rx)) =>
          /\ file_watcher_rx' = << >>
          /\ watch'.tick[1].drained = file_watcher_rx
          /\ ~ModifiesTodo(file_watcher_rx) =>
                /\ state' = state
                /\ last_reload_time' = last_reload_time
                /\ todo_file' = todo_file
                /\ rpc' = << >>
                /\ watch'.tick[1].reloads = 0]_vars

\* A tick, 250 ms after a reload, that drained a creation of todo.txt and a
\* modification of done.txt and did not reload.
C32_Witness ==
    /\ watch.tick # << >>
    /\ watch.tick[1].drained = <<[name |-> TodoName, kind |-> "Create"],
                                 [name |-> "done.txt", kind |-> "Modify"]>>
    /\ watch.tick[1].reloads = 0
    /\ watch.tick[1].since = <<now - 250>>
    /\ file_watcher_rx = << >>

(***************************************************************************)
(* The append to done.txt on every previous content of done.txt            *)
(***************************************************************************)

\* done.txt before the run: as in DoneFiles, or a lone line feed, or a record
\* followed by an empty line.
DoneStores ==
    DoneFiles \cup { <<<<NL>>>>, <<Words(<<<<"x">>, <<"t">>>>) \o <<NL, NL>>>> }

InitDone ==
    /\ todo_file \in {<<c>> : c \in FileContents}
    /\ done_file \in DoneStores
    /\ today = Day2
    /\ state = new(<< >>, FALSE)
    /\ sessions = << >>
    /\ last_reload_time = << >>
    /\ file_watcher_rx = << >>
    /\ now = 0
    /\ next_uuid = 0
    /\ crashed = FALSE
    /\ rpc = << >>
    /\ last_op = NoOp
    /\ watch = NoWatch
    /\ monitor_lock = "free"
    /\ pc = Idle
    /\ twin = << >>

NextDone ==
    FileMarkComplete

SpecDone ==
    InitDone /\ [][NextDone]_vars

\* s without the line feeds it ends with.
RECURSIVE WithoutFinalNL(_)
WithoutFinalNL(s) ==
    IF s # << >> /\ s[Len(s)] = NL THEN WithoutFinalNL(SubSeq(s, 1, Len(s) - 1))
    ELSE s

\* C33: a mark_complete that appends to done.txt creates the file if it is
\* absent, and whatever done.txt held the new content ends with exactly one
\* line feed and holds exactly one separator between what was there and the
\* appended record: it is the previous content up to its last record, one
\* line feed, the record, one line feed (the record and one line feed when
\* there was no record before).
C33_OneSeparatorOneNewline ==
    [][(last_op'.op = "mark_complete" /\ done_file' # done_file) =>
          \E before \in {WithoutFinalNL(DoneContent(done_file))},
             record \in {AddedLine} :
             /\ done_file' # << >>
             /\ ends_with(done_file'[1], <<NL>>)
             /\ ~ends_with(done_file'[1], <<NL, NL>>)
             /\ done_file'[1] = (IF before = << >> THEN << >> ELSE before \o <<NL>>)
                                   \o record \o <<NL>>]_vars

(***************************************************************************)
(* The monitor-column boundary under the reloads: navigation keys and     *)
(* reloads of a file from which another program, or a completion, removed  *)
(* records or to which it added some                                       *)
(***************************************************************************)

NextBoundary ==
    \/ ObservedKey
    \/ ReloadTodos

SpecBoundary ==
    InitNav /\ [][NextBoundary]_vars

\* C34: a reload that starts with the selection on the monitor column ends with it on the
\* monitor column, and one that starts with the selection on a project column
\* ends with it on a project column if any project column is left.
C34_ReloadKeepsSideOfBoundary ==
    [][last_op'.op = "reload_todos" =>
          /\ is_on_claude_column(state) => is_on_claude_column(state')
          /\ (~is_on_claude_column(state) /\ state'.project_names # << >>) =>
                 ~is_on_claude_column(state')]_vars

(***************************************************************************)
(* The records of the two files counted across mark_complete               *)
(***************************************************************************)

\* The number of lines of a file that are not blank; none while it is absent.
NonBlankLines(f) ==
    Cardinality({i \in 1..Len(LinesOf(f)) : ~IsBlank(LinesOf(f)[i])})

\* C35: a mark_complete that returned Ok leaves the number of non-blank lines
\* of todo.txt and done.txt together as it was, several lines carrying the
\* identifier asked for or not: every line it removed from todo.txt is a line
\* more in done.txt.
C35_RecordsConserved ==
    [][(last_op'.op = "mark_complete" /\ last_op'.result = "Ok") =>
          NonBlankLines(todo_file') + NonBlankLines(done_file')
              = NonBlankLines(todo_file) + NonBlankLines(done_file)]_vars

(***************************************************************************)
(* The priority token as mark_complete and as Item::parse see it           *)
(***************************************************************************)

\* The step is a mark_complete on a file where exactly one line carries the
\* identifier asked for, and that line is not completed.
MarkCompleteOfIncomplete ==
    /\ last_op'.op = "mark_complete"
    /\ Cardinality(Targets(LinesOf(todo_file), last_op'.arg)) = 1
    /\ ~parse(TargetLine, 1).completed

\* C36: on an incomplete line mark_complete takes a leading priority token
\* exactly when Item::parse yields a priority for the line, the token taken
\* is '(' + the parsed priority + ')', and taking it never panics.
C36_PriorityAgreesWithParser ==
    [][MarkCompleteOfIncomplete =>
          \E line \in {TargetLine} :
          \E todo \in {parse(line, 1)} :
             /\ last_op'.result # "Panic"
             /\ HasLeadingPriority(line) <=> todo.priority # << >>
             /\ HasLeadingPriority(line) =>
                    SubSeq(line, 1, 3) = <<"(", todo.priority[1], ")">>]_vars

(***************************************************************************)
(* The done line parsed again                                              *)
(***************************************************************************)

\* C37: the line mark_complete adds to done.txt for an incomplete line L
\* parses to the record of L with completed set and the day of the call as
\* completion_date: priority, creation_date, description, projects, contexts
\* and id are those of L.
C37_DoneLineParsesToSameFields ==
    [][(MarkCompleteMoved /\ ~parse(TargetLine, 1).completed) =>
          \E added \in {AddedLine}, todo \in {parse(TargetLine, 1)} :
             parse(added, 1) = [todo EXCEPT !.completed = TRUE,
                                            !.completion_date = <<today>>]]_vars

(***************************************************************************)
(* The preview fields under keys, ticks, the poller and reloads            *)
(***************************************************************************)

\* todo.txt as another program leaves it: empty, or one record of the
\* projects p and q.
ColumnFiles ==
    { << >>, Written(<<Words(<<<<"t">>, <<"+", "p">>, <<"+", "q">>, Id("2")>>)>>) }

\* A reload that adds or removes project columns.
ReloadColumns ==
    ReloadTodosFrom(ColumnFiles)

NextConsistent ==
    \/ ObservedKey
    \/ ObservedPreview
    \/ PreviewClock
    \/ Poller
    \/ ReloadColumns

SpecConsistent ==
    InitPreview /\ [][NextConsistent]_vars

\* preview_active exactly when a channel is stored, and no time of a push
\* while the preview is inactive.
PreviewConsistent ==
    /\ state.preview_active <=> state.terminal_channel # << >>
    /\ ~state.preview_active => state.last_preview_update = << >>

\* A step that sets last_preview_update sets it to the time of the step, and
\* the last call it sent is an nvim_chan_send on the stored channel that
\* succeeded.
PushSetsTime ==
    (/\ state'.last_preview_update # state.last_preview_update
     /\ state'.last_preview_update # << >>) =>
        /\ state'.last_preview_update = <<now>>
        /\ state'.terminal_channel # << >>
        /\ rpc' # << >>
        /\ rpc'[Len(rpc')] = [call |-> "nvim_chan_send",
                              arg |-> <<state'.terminal_channel[1],
                                        state'.claude_selected_index>>]
        /\ IF last_op'.op = "preview" THEN last_op'.result = <<TRUE>>
           ELSE last_op'.arg[Len(last_op'.arg)] = TRUE

\* C38: in every reachable state preview_active is true exactly when a
\* channel handle is stored, and last_preview_update is unset while the
\* preview is inactive; last_preview_update is only ever set by a push that
\* was sent successfully on the stored channel.
C38_PreviewFieldsConsistent ==
    []PreviewConsistent /\ [][PushSetsTime]_vars

\* An auto-push tick, some time after the enter, that pushed on the stored
\* channel and set the time of the push.
C38_Witness ==
    /\ last_op.op = "preview"
    /\ last_op.result = <<TRUE>>
    /\ state.preview_active
    /\ state.terminal_channel = <<7>>
    /\ state.last_preview_update = <<now>>
    /\ now > 0

(***************************************************************************)
(* The application and the watcher of its own writes: every rewrite of     *)
(* todo.txt or done.txt by the application is a Modify event in the        *)
(* channel; no other program writes                                        *)
(***************************************************************************)

\* The events the watcher sends for what an operation wrote.
OwnEvents(wrote_todo, wrote_done) ==
    (IF wrote_done THEN <<[name |-> "done.txt", kind |-> "Modify"]>> ELSE << >>)
    \o (IF wrote_todo THEN <<ModifyTodo>> ELSE << >>)

\* Any file content, lines with identifiers or without, the records loaded
\* from it; a Modify event of an earlier write waits in the channel or not.
\* The time is counted from the last reload: now stays at DebounceMs.
InitQuiet ==
    /\ todo_file \in {<<c>> : c \in Contents(SeqsUpTo(IdLines, MaxFileLines))}
    /\ done_file = << >>
    /\ state = new(load_todos(todo_file)[1], FALSE)
    /\ sessions = << >>
    /\ last_reload_time = << >>
    /\ file_watcher_rx \in {<< >>, <<ModifyTodo>>}
    /\ now = DebounceMs
    /\ today = Day2
    /\ next_uuid = 0
    /\ crashed = FALSE
    /\ rpc = << >>
    /\ last_op = NoOp
    /\ watch = NoWatch
    /\ monitor_lock = "free"
    /\ pc = Idle
    /\ twin = << >>

\* handle_file_watcher_events, and the watcher's event for its write; the
\* reloads of the ticks are counted in watch.reload_times.
OwnTick ==
    /\ ~crashed
    /\ \E io \in ReloadIOs :
       \E r \in {handle_file_watcher_events(last_reload_time, file_watcher_rx, state,
                                            todo_file, now, next_uuid, io)} :
          /\ r.drawn <= MaxUuid
          /\ state' = r.st
          /\ todo_file' = r.file
          /\ next_uuid' = r.drawn
          /\ last_reload_time' = r.last_reload_time
          /\ file_watcher_rx' = OwnEvents(r.wrote, FALSE)
          /\ watch' = Observed(file_watcher_rx, r)
          /\ last_op' = Op("tick", <<io>>, r.ids, r.wrote, FALSE)
          /\ rpc' = r.rpc
    /\ UNCHANGED <<done_file, sessions, now, today, crashed, twin,
                   monitor_lock, pc>>

\* The mark-complete key, and the watcher's events for its writes
OwnComplete ==
    /\ ~crashed
    /\ \E io \in CompleteIOs :
       \E r \in {handle_complete_todo(state, todo_file, done_file, today, io)} :
          /\ state' = r.st
          /\ todo_file' = r.file
          /\ done_file' = r.done
          /\ crashed' = r.panic
          /\ file_watcher_rx' = file_watcher_rx
                                   \o OwnEvents(r.file # todo_file, r.done # done_file)
          /\ last_op' = Op("x", <<io>>, r.result, r.file # todo_file, FALSE)
          /\ rpc' = r.rpc
    /\ UNCHANGED <<sessions, last_reload_time, now, today, next_uuid, watch, twin,
                   monitor_lock, pc>>

\* The debounce interval passes since the last reload.
Elapse ==
    /\ last_reload_time = <<now>>
    /\ last_reload_time' = <<now - DebounceMs>>
    /\ last_op' = Op("elapse", << >>, "None", FALSE, FALSE)
    /\ UNCHANGED <<state, todo_file, done_file, sessions, file_watcher_rx, now, today,
                   next_uuid, crashed, rpc, watch, twin, monitor_lock, pc>>

NextQuiet ==
    \/ OwnTick
    \/ OwnComplete
    \/ Elapse

SpecQuiet ==
    InitQuiet /\ [][NextQuiet]_vars

\* No event waits in the channel.
Quiet ==
    file_watcher_rx = << >>

\* A tick that finds no event writes nothing, reloads nothing and sends
\* nothing.
QuietTick ==
    (Quiet /\ last_op'.op = "tick") =>
        /\ todo_file' = todo_file
        /\ state' = state
        /\ last_reload_time' = last_reload_time
        /\ watch'.reload_times = watch.reload_times
        /\ file_watcher_rx' = << >>
        /\ rpc' = << >>

\* The reloads the ticks can perform in all: one for an event waiting at
\* the start, one for the write of the identifiers, one for each record
\* completed.
MaxOwnReloads ==
    MaxFileLines + 2

\* The events that can wait at once.
MaxOwnEvents ==
    2 * MaxFileLines + 1

\* C39: with the application as the only writer, the Modify events of its
\* own rewrites (the identifiers added by a reload, the line removed by a
\* completion) lead to finitely many reloads and writes: the ticks reload
\* at most MaxOwnReloads times in all, whatever the keys and the time
\* between the ticks, the channel never holds more than MaxOwnEvents
\* events, every tick empties it but for the event of its own write, and a
\* tick that finds the channel empty writes nothing, reloads nothing and
\* sends no RPC call.
C39_OwnWritesQuiesce ==
    /\ [](/\ Len(watch.reload_times) <= MaxOwnReloads
          /\ Len(file_watcher_rx) <= MaxOwnEvents)
    /\ [][QuietTick]_vars

\* The reload of the event of the application's own write: it found every
\* line with an identifier, two of them drawn by the reload before, wrote
\* nothing and left the channel empty.
C39_Witness ==
    /\ last_op.op = "tick"
    /\ last_op.result = "Ok"
    /\ ~last_op.wrote
    /\ Len(watch.reload_times) = 2
    /\ next_uuid = 2
    /\ Len(state.todos) = 2
    /\ AllHaveIds(state.todos)
    /\ file_watcher_rx = << >>

(***************************************************************************)
(* The mark-complete key on a file another program changed since the last  *)
(* reload                                                                  *)
(***************************************************************************)

\* The lines another program writes: the two records of the start and a
\* record with a new identifier.
StaleLines ==
    NavLines \cup {Words(<<<<"t">>, <<"+", "p">>, Id("3")>>)}

MaxStaleLines ==
    3

\* Those lines in any order, each at most once, or two files of this shape:
\* an empty line before a record, and a record copied below another one.
StaleFiles ==
    {Written(ls) : ls \in {q \in SeqsUpTo(StaleLines, MaxStaleLines) : Distinct(q)}}
    \cup { Written(<<<< >>, Words(<<<<"t">>, <<"+", "q">>, Id("1")>>)>>),
           Written(<<Words(<<<<"t">>, <<"+", "q">>, Id("1")>>),
                     Words(<<<<"t">>, <<"+", "p">>, <<"+", "q">>, Id("2")>>),
                     Words(<<<<"t">>, <<"+", "q">>, Id("1")>>)>>) }

\* The runs end with the first line in done.txt.
MaxStaleDone ==
    1

\* Another program rewrites todo.txt and the application does not reload:
\* lines are inserted, removed, reordered or copied.
Rewrite ==
    /\ ~crashed
    /\ Len(LinesOf(done_file)) < MaxStaleDone
    /\ \E c \in StaleFiles :
          /\ <<c>> # todo_file
          /\ todo_file' = <<c>>
    /\ last_op' = Op("rewrite", << >>, "None", TRUE, FALSE)
    /\ UNCHANGED <<state, done_file, sessions, last_reload_time, file_watcher_rx,
                   now, today, next_uuid, crashed, rpc, watch, twin,
                   monitor_lock, pc>>

\* Start-up on a file of records with identifiers, empty or not, with or
\* without the monitor column (no session found yet).
InitStale ==
    /\ todo_file \in {<<c>> : c \in NavFiles}
    /\ done_file = << >>
    /\ state \in {new(load_todos(todo_file)[1], monitor) : monitor \in BOOLEAN}
    /\ sessions = << >>
    /\ last_reload_time = << >>
    /\ file_watcher_rx = << >>
    /\ now = 0
    /\ today = Day2
    /\ next_uuid = 0
    /\ crashed = FALSE
    /\ rpc = << >>
    /\ last_op = NoOp
    /\ watch = NoWatch
    /\ monitor_lock = "free"
    /\ pc = Idle
    /\ twin = << >>

\* The mark-complete key while done.txt has fewer than MaxStaleDone lines.
StaleComplete ==
    /\ Len(LinesOf(done_file)) < MaxStaleDone
    /\ ObservedComplete

NextStale ==
    \/ ObservedKey
    \/ StaleComplete
    \/ Rewrite

SpecStale ==
    InitStale /\ [][NextStale]_vars

\* The identifier of the record under the selection, read from the grouped
\* records: none on the monitor column or without records.
SelectedId ==
    IF state.project_names = << >> \/ is_on_claude_column(state) THEN << >>
    ELSE SelectedRecord(state).id

\* The lines of ls that carry another identifier or none, empty and blank
\* lines left out, in their order.
OtherRecords(ls, todo_id) ==
    LET Keep(l) == ~IsBlank(l) /\ ~IsTarget(l, todo_id)
    IN  SelectSeq(ls, Keep)

\* The last line of ls that carries the identifier.
LastTarget(ls, todo_id) ==
    ls[CHOOSE i \in Targets(ls, todo_id) : \A j \in Targets(ls, todo_id) : j <= i]

\* C40: the mark-complete key works on todo.txt as it is when the key is
\* pressed and finds the record by the identifier of the selected record:
\* whatever another program did to the file since the last reload, the lines
\* that carry another identifier or none (empty lines apart) stay in
\* todo.txt in their order; if no
\* line carries it (or nothing with an identifier is selected) neither file
\* changes; if a line carries it and mark_complete returned Ok, todo.txt has
\* no line with that identifier left and done.txt has one line more, the
\* completed form of the line that carried it.
C40_CompletionByIdentifier ==
    [][(last_op'.op = "x") =>
          \E id \in {SelectedId}, ls \in {LinesOf(todo_file)} :
             /\ id = << >> => (todo_file' = todo_file /\ done_file' = done_file)
             /\ id # << >> =>
                 /\ OtherRecords(LinesOf(todo_file'), id[1]) = OtherRecords(ls, id[1])
                 /\ Targets(ls, id[1]) = {} =>
                        (todo_file' = todo_file /\ done_file' = done_file)
                 /\ (Targets(ls, id[1]) # {} /\ last_op'.result = "Ok") =>
                        /\ Targets(LinesOf(todo_file'), id[1]) = {}
                        /\ OneLineAdded
                        /\ AddedLine
                             = ExpectedDoneLine(LastTarget(ls, id[1]),
                                                parse(LastTarget(ls, id[1]), 1),
                                                today)]_vars

\* The key moved a record whose line another program had moved to another
\* line number: the loaded record of that identifier had line number 1, the
\* line went from line 3 of todo.txt to done.txt, and the two lines before
\* it, of other identifiers, are still there.
C40_Witness ==
    /\ last_op.op = "x"
    /\ last_op.result = "Ok"
    /\ last_op.wrote
    /\ last_op.arg.id = <<<<"1">>>>
    /\ Len(LinesOf(todo_file)) = 2
    /\ IdsIn(LinesOf(todo_file)) = {<<<<"2">>>>, <<<<"3">>>>}
    /\ IdsIn(LinesOf(done_file)) = {<<<<"1">>>>}

====
